---- MODULE Spec2Model ----
(***************************************************************************)
(* Flow Free / Number Link solver core.                                    *)
(*                                                                         *)
(* Path enumeration ("astar"): src/src/Components/FlowSolver/Solver.tsx    *)
(* SAT encoding ("z3"):        src/src/Components/FlowSolver/Z3Solver.ts   *)
(* Worker dispatcher:          src/src/Components/FlowSolver/solver.worker.ts *)
(*                             src/src/solver/workers/solver.worker.ts      *)
(*                                                                         *)
(* A board is a sequence of rows, a row a sequence of cell values; a cell  *)
(* is <<x, y>> with the 0-based indices of the source (board[x][y]).       *)
(***************************************************************************)
EXTENDS Integers, Sequences, FiniteSets, TLC

VARIABLES
    board,       \* the caller's board, as handed to solve / solveZ3
    strategy,    \* "astar" | "z3": the engine the request is for
    pc,          \* "idle" | "search" | "done"
    pairs,       \* solveBoard: number -> <<startCell, endCell>>
    stack,       \* activation records of explorePathsForNumber, innermost last
    nodeCount,   \* the nodeCount threaded through explorePathsForNumber
    result,      \* the SolveResult envelope (board, timedOut, nodeCount)
    thrown,      \* which exception ended the call ("none" if none did)
    round,       \* how many times the result has been resubmitted as input
    type,        \* event.data.type of the message the worker is handling
    worker,      \* which solver.worker.ts runs: "FlowSolver" | "workers"
    messages,    \* how many messages this worker has been delivered
    posted,      \* the envelopes posted for the message being handled
    error,       \* String(e) of the exception the handler's catch received
    escaped,     \* TRUE once an exception has left the message handler
    z3Inits,     \* how many times initZ3 has been called in this process
    late,        \* TRUE iff solver.check() answered after the 15 s deadline
    cSolverInstance,  \* "null" | "instance": the WASM module kept by the worker
    reply,       \* what solve_puzzle_wasm answered to the last request
    loading,     \* request -> where its call of the WASM loader stands
    instances,   \* how many WASM instances createFlowSolver has created
    activeColor,      \* FlowSolver.tsx: the color the next click places
    isPlacingSecond,  \* FlowSolver.tsx: the next click places a second endpoint
    shownSolved, \* FlowSolver.tsx: solvedBoard, Null until a solved board is shown
    clicks,      \* how many cell clicks the editor has handled
    isSolving,   \* FlowSolver.tsx: isSolving, the Solve button is disabled
    inFlight,    \* the boards posted to workers that are live, oldest first
    minHeap,     \* Solver.tsx, MinHeap: this.heap
    popResult,   \* what the last MinHeap.pop returned
    pushes,      \* how many MinHeap.push calls were made
    pops,        \* how many MinHeap.pop calls returned an element
    items,       \* Solver.tsx, Queue: this.items
    head,        \* Queue: this.head
    tail,        \* Queue: this.tail
    shiftResult, \* what the last Queue.shift returned
    pushedItems  \* the arguments of the Queue.push calls, in order

\* the state of the worker outside the engines
host == <<type, worker, messages, posted, escaped, cSolverInstance, reply>>

\* the loader of the WASM back-end under concurrent requests
loader == <<loading, instances>>

\* the state of the board editor, next to its board
editor ==
    <<activeColor, isPlacingSecond, shownSolved, clicks, isSolving, inFlight>>

\* a MinHeap and a Queue exercised on their own
containers ==
    <<minHeap, popResult, pushes, pops, items, head, tail, shiftResult,
      pushedItems>>

\* no container in use
NoContainers ==
    /\ minHeap = <<>>
    /\ popResult = "undefined"
    /\ pushes = 0
    /\ pops = 0
    /\ items = <<>>
    /\ head = 0
    /\ tail = 0
    /\ shiftResult = "undefined"
    /\ pushedItems = <<>>

vars == <<board, strategy, pc, pairs, stack, nodeCount, result, thrown, round,
          host, loader, editor, containers, error, z3Inits, late>>

----------------------------------------------------------------------------
(* Bounds of the model *)

MaxDim == 3          \* enumerated input boards have 2..MaxDim rows and columns
MaxCells == 9        \* and at most this many cells
MaxColor == MaxCells \div 4     \* their labels are 0..MaxColor: four cells per colour
MaxLabelled == 2 * MaxColor     \* and at most this many cells are labelled
MaxRounds == 1       \* resubmissions of a returned board
FreshValues == 1     \* values beyond the largest label a SAT model may use
MaxPlain == 3        \* empty cells up to which all assignments are enumerated

----------------------------------------------------------------------------
(* Values of the source *)

Null == <<>>                 \* null (a board or a cell that is absent)
Undefined == 0 - 1           \* board[x][y] read outside the array
Infinity == 1000000          \* Solver.tsx: Infinity

directions == <<(<<0 - 1, 0>>), <<1, 0>>, (<<0, 0 - 1>>), <<0, 1>>>>

Abs(a) == IF a < 0 THEN 0 - a ELSE a

NumRows(b) == Len(b)
NumCols(b) == IF Len(b) = 0 THEN 0 ELSE Len(b[1])

\* board[x][y] as JavaScript reads it
Get(b, x, y) ==
    IF x >= 0 /\ x < Len(b) /\ y >= 0 /\ y < Len(b[x + 1])
    THEN b[x + 1][y + 1]
    ELSE Undefined

CellsOf(b) == {<<x, y>> : x \in 0..(NumRows(b) - 1), y \in 0..(NumCols(b) - 1)}

\* cells in row-major order, the order of the nested for loops
RowMajor(b) ==
    [k \in 1..(NumRows(b) * NumCols(b)) |->
        <<(k - 1) \div NumCols(b), (k - 1) % NumCols(b)>>]

SetMax(S) == CHOOSE m \in S : \A v \in S : v <= m
SetMin(S) == CHOOSE m \in S : \A v \in S : m <= v

InPath(path, x, y) == \E i \in 1..Len(path) : path[i] = <<x, y>>

----------------------------------------------------------------------------
(* class MinHeap, with aStar's comparator (a, b) => a[0] - b[0].           *)
(* The heap is the array this.heap; source index i is element i + 1.       *)

compare(a, b) == a[1] - b[1]

Swap(heap, i, j) == [heap EXCEPT ![i] = heap[j], ![j] = heap[i]]

RECURSIVE bubbleUp(_, _)
bubbleUp(heap, index) ==
    IF index > 0
    THEN LET parentIndex == (index - 1) \div 2
         IN  IF compare(heap[index + 1], heap[parentIndex + 1]) < 0
             THEN bubbleUp(Swap(heap, index + 1, parentIndex + 1), parentIndex)
             ELSE heap
    ELSE heap

RECURSIVE bubbleDown(_, _)
bubbleDown(heap, index) ==
    LET leftChild == 2 * index + 1
        rightChild == 2 * index + 2
        s1 == IF leftChild < Len(heap)
                 /\ compare(heap[leftChild + 1], heap[index + 1]) < 0
              THEN leftChild ELSE index
        smallest == IF rightChild < Len(heap)
                       /\ compare(heap[rightChild + 1], heap[s1 + 1]) < 0
                    THEN rightChild ELSE s1
    IN  IF smallest # index
        THEN bubbleDown(Swap(heap, index + 1, smallest + 1), smallest)
        ELSE heap

MinHeapPush(heap, item) == bubbleUp(Append(heap, item), Len(heap))

\* pop that moves the last element to the root and leaves it there
MinHeapPopUnsifted(heap) ==
    LET top == heap[1]
        bottom == heap[Len(heap)]
        rest == SubSeq(heap, 1, Len(heap) - 1)
    IN  [top |-> top,
         heap |-> IF Len(rest) > 0 THEN [rest EXCEPT ![1] = bottom] ELSE rest]

\* pop on a non-empty heap: the element returned and the heap left
MinHeapPop(heap) ==
    LET top == heap[1]
        bottom == heap[Len(heap)]
        rest == SubSeq(heap, 1, Len(heap) - 1)
    IN  [top |-> top,
         heap |-> IF Len(rest) > 0
                  THEN bubbleDown([rest EXCEPT ![1] = bottom], 0)
                  ELSE rest]

----------------------------------------------------------------------------
(* findPairs, aStar, applyPath, lookaheadHeuristics *)

RECURSIVE findPairsFrom(_, _, _, _)
findPairsFrom(b, number, k, startCell) ==
    IF k > Len(RowMajor(b))
    THEN <<startCell, Null>>
    ELSE LET c == RowMajor(b)[k]
         IN  IF Get(b, c[1], c[2]) = number
             THEN IF startCell = Null
                  THEN findPairsFrom(b, number, k + 1, c)
                  ELSE <<startCell, c>>
             ELSE findPairsFrom(b, number, k + 1, startCell)

findPairs(b, number) == findPairsFrom(b, number, 1, Null)

None == 0 - 1                \* "no number": no value returned yet, or a null number

\* the for loop over directions of one expansion of (x, y) with cost g;
\* ret is the value returned from inside the loop, None if none
\* aStar without the exemption of the end cell: the end is treated like any
\* other labelled cell
RECURSIVE aStarExpandNoExempt(_, _, _, _, _, _, _, _)
aStarExpandNoExempt(b, end, g, x, y, d, pq, visited) ==
    IF d > Len(directions)
    THEN [ret |-> 0 - 1, pq |-> pq, visited |-> visited]
    ELSE LET n == Len(b)
             nx == x + directions[d][1]
             ny == y + directions[d][2]
         IN  IF nx >= 0 /\ nx < n /\ ny >= 0 /\ ny < n /\ <<nx, ny>> \notin visited
                /\ Get(b, nx, ny) = 0
             THEN aStarExpandNoExempt(b, end, g, x, y, d + 1,
                      MinHeapPush(pq, <<g + 1 + Abs(nx - end[1]) + Abs(ny - end[2]),
                                        g + 1, nx, ny>>),
                      visited \cup {<<nx, ny>>})
             ELSE aStarExpandNoExempt(b, end, g, x, y, d + 1, pq, visited)

RECURSIVE aStarExpand(_, _, _, _, _, _, _, _)
aStarExpand(b, end, g, x, y, d, pq, visited) ==
    IF d > Len(directions)
    THEN [ret |-> None, pq |-> pq, visited |-> visited]
    ELSE LET n == Len(b)
             nx == x + directions[d][1]
             ny == y + directions[d][2]
         IN  IF nx >= 0 /\ nx < n /\ ny >= 0 /\ ny < n /\ <<nx, ny>> \notin visited
             THEN IF nx = end[1] /\ ny = end[2]
                  THEN [ret |-> g + 1, pq |-> pq, visited |-> visited]
                  ELSE IF Get(b, nx, ny) = 0
                       THEN LET gNew == g + 1
                                hNew == Abs(nx - end[1]) + Abs(ny - end[2])
                                fNew == gNew + hNew
                            IN  aStarExpand(b, end, g, x, y, d + 1,
                                            MinHeapPush(pq, <<fNew, gNew, nx, ny>>),
                                            visited \cup {<<nx, ny>>})
                       ELSE aStarExpand(b, end, g, x, y, d + 1, pq, visited)
             ELSE aStarExpand(b, end, g, x, y, d + 1, pq, visited)

RECURSIVE aStarLoop(_, _, _, _)
aStarLoop(b, end, pq, visited) ==
    IF Len(pq) = 0
    THEN Infinity
    ELSE LET popped == MinHeapPop(pq)
             g == popped.top[2]
             x == popped.top[3]
             y == popped.top[4]
         IN  IF x = end[1] /\ y = end[2]
             THEN g
             ELSE LET e == aStarExpand(b, end, g, x, y, 1, popped.heap, visited)
                  IN  IF e.ret # None
                      THEN e.ret
                      ELSE aStarLoop(b, end, e.pq, e.visited)

aStar(b, start, end) ==
    aStarLoop(b, end, MinHeapPush(<<>>, <<0, 0, start[1], start[2]>>), {start})

RECURSIVE applyPathFrom(_, _, _, _)
applyPathFrom(newBoard, path, number, i) ==
    IF i > Len(path)
    THEN newBoard
    ELSE applyPathFrom(
             [newBoard EXCEPT ![path[i][1] + 1][path[i][2] + 1] = number],
             path, number, i + 1)

\* applyPath returning the board it was given
applyPathStale(b, path, number) == b

\* applyPath writing newBoard[y][x]
applyPathTransposed(b, path, number) ==
    applyPathFrom(b, [i \in 1..Len(path) |-> <<path[i][2], path[i][1]>>], number, 1)

\* applyPath stopping two cells short of the end of the path
applyPathShort(b, path, number) ==
    applyPathFrom(b, SubSeq(path, 1, Len(path) - 2), number, 1)

applyPath(b, path, number) == applyPathFrom(b, path, number, 1)

\* the path written into the activation's own array: the board it holds
\* afterwards is the new board
boardAfterApplyInPlace(b, newBoard) == newBoard

\* lines 258-259 and 168: the path is applied to a copy of a copy, so the
\* board the activation (and, for the first color, the caller) holds after
\* applyPath is the one it held before
boardAfterApply(b, newBoard) == b

\* explorePathsForNumber without the lookahead: the colors after the
\* current one are not examined
lookaheadHeuristicsSkipped(b, prs, currentNumber) == None

RECURSIVE lookaheadHeuristics(_, _, _)
lookaheadHeuristics(b, prs, currentNumber) ==
    IF currentNumber > Cardinality(DOMAIN prs)
    THEN None
    ELSE LET startCell == prs[currentNumber][1]
             endCell == prs[currentNumber][2]
         IN  IF startCell # Null /\ endCell # Null
                /\ aStar(b, startCell, endCell) = Infinity
             THEN Infinity
             ELSE lookaheadHeuristics(b, prs, currentNumber + 1)

----------------------------------------------------------------------------
(* explorePathsForNumber: its prologue, and one iteration of its loop      *)

Frame(b, sumPath, number, startCell, endCell, minDist) ==
    [board |-> b, sumPath |-> sumPath, number |-> number,
     startCell |-> startCell, endCell |-> endCell, minDist |-> minDist,
     queue |-> << <<startCell[1], startCell[2], <<startCell>> >> >>,
     visitedPaths |-> {}]

\* Lines 197-211: "throw" (no such number), "null" (return [null, nodeCount])
\* or "frame" (the loop is entered with the start cell queued)
Enter(b, sumPath, number, prs) ==
    IF number \notin DOMAIN prs
    THEN [kind |-> "throw", frame |-> Null]
    ELSE LET startCell == prs[number][1]
             endCell == prs[number][2]
         IN  IF startCell = Null \/ endCell = Null
             THEN [kind |-> "null", frame |-> Null]
             ELSE LET minDist == aStar(b, startCell, endCell)
                  IN  IF minDist = Infinity
                      THEN [kind |-> "null", frame |-> Null]
                      ELSE IF lookaheadHeuristics(b, prs, number + 1) = Infinity
                           THEN [kind |-> "null", frame |-> Null]
                           ELSE [kind |-> "frame",
                                 frame |-> Frame(b, sumPath, number,
                                                 startCell, endCell, minDist)]

\* the extension without the test that the neighbour is empty
RECURSIVE extendPathOverwrite(_, _, _, _, _, _, _)
extendPathOverwrite(b, endCell, cx, cy, path, d, queue) ==
    IF d > Len(directions)
    THEN queue
    ELSE LET nx == cx + directions[d][1]
             ny == cy + directions[d][2]
         IN  IF nx >= 0 /\ nx < Len(b) /\ ny >= 0 /\ ny < Len(b[1])
                /\ ~InPath(path, nx, ny)
             THEN extendPathOverwrite(b, endCell, cx, cy, path, d + 1,
                             Append(queue, <<nx, ny, Append(path, <<nx, ny>>)>>))
             ELSE extendPathOverwrite(b, endCell, cx, cy, path, d + 1, queue)

\* the extension without the test that the neighbour is already in the path
RECURSIVE extendPathRevisit(_, _, _, _, _, _, _)
extendPathRevisit(b, endCell, cx, cy, path, d, queue) ==
    IF d > Len(directions)
    THEN queue
    ELSE LET nx == cx + directions[d][1]
             ny == cy + directions[d][2]
             isEnd == (nx = endCell[1] /\ ny = endCell[2])
         IN  IF nx >= 0 /\ nx < Len(b) /\ ny >= 0 /\ ny < Len(b[1])
                /\ (Get(b, nx, ny) = 0 \/ isEnd)
             THEN extendPathRevisit(b, endCell, cx, cy, path, d + 1,
                             Append(queue, <<nx, ny, Append(path, <<nx, ny>>)>>))
             ELSE extendPathRevisit(b, endCell, cx, cy, path, d + 1, queue)

\* Lines 296-345: the neighbours of (cx, cy) pushed to the queue
RECURSIVE extendPath(_, _, _, _, _, _, _)
extendPath(b, endCell, cx, cy, path, d, queue) ==
    IF d > Len(directions)
    THEN queue
    ELSE LET nx == cx + directions[d][1]
             ny == cy + directions[d][2]
             isEnd == (nx = endCell[1] /\ ny = endCell[2])
         IN  IF nx >= 0 /\ nx < Len(b) /\ ny >= 0 /\ ny < Len(b[1])
                /\ ~InPath(path, nx, ny)
                /\ (Get(b, nx, ny) = 0 \/ isEnd)
             THEN extendPath(b, endCell, cx, cy, path, d + 1,
                             Append(queue, <<nx, ny, Append(path, <<nx, ny>>)>>))
             ELSE extendPath(b, endCell, cx, cy, path, d + 1, queue)

\* the success test left out: any completed path ends the search
IsFullUnchecked(newSumPath, b) == TRUE

\* the success test against the side of the board instead of its area
IsFullLinear(newSumPath, b) == newSumPath >= Len(b)

\* lines 270 and 285: the success test
IsFull(newSumPath, b) == newSumPath = Len(b) * Len(b)

\* JSON.stringify(path): injective on sequences of integer pairs, so the
\* path itself stands for its string
pathTuple(path) == path

\* the envelope solve returns
SolveResult(b, timedOut, timeTaken, nc) ==
    [board |-> b, timedOut |-> timedOut, timeTaken |-> timeTaken, nodeCount |-> nc]

NoResult == SolveResult(Null, FALSE, "0", 0)

\* no exception has reached the handler's catch
NoError == "undefined"

\* solve_puzzle_wasm has not been called
NoReply == [kind |-> "none"]

\* no request for the WASM back-end is being followed
NotLoading == <<>>

\* solve, line 403: timedOut = solvedBoard === null && timeTaken >= 14900
TimedOutFlag(solvedBoard, timeTaken) ==
    solvedBoard = Null /\ timeTaken = ">=14900"

\* performance.now() - startTime, as far as solve looks at it
TimeTaken == {"<14900", ">=14900"}

Finish(solvedBoard, nc, timeTaken, exc) ==
    /\ pc' = "done"
    /\ stack' = <<>>
    /\ thrown' = exc
    /\ result' = SolveResult(solvedBoard, TimedOutFlag(solvedBoard, timeTaken),
                             timeTaken, nc)

----------------------------------------------------------------------------
(* solveZ3: the constraints handed to the solver, and its models           *)

\* the fixed values are kept, the others range over the positive integers;
\* the model cuts them at FreshValues values beyond the largest label
MaxNum(b) == SetMax({0} \cup {Get(b, c[1], c[2]) : c \in CellsOf(b)})

Z3Values(b) == 1..(MaxNum(b) + FreshValues)

\* lines 78-92: the number of in-bounds neighbours holding the same value
neighsSum(S, i, j) ==
    Cardinality({d \in DOMAIN directions :
        LET ni == i + directions[d][1]
            nj == j + directions[d][2]
        IN  /\ ni >= 0 /\ ni < NumRows(S) /\ nj >= 0 /\ nj < NumCols(S)
            /\ Get(S, i, j) = Get(S, ni, nj)})

\* lines 65-71: the value constraint of cell (i, j)
ValueConstraint(b, S, i, j) ==
    IF Get(b, i, j) > 0
    THEN Get(S, i, j) = Get(b, i, j)
    ELSE Get(S, i, j) > 0

\* the neighbour constraint without the endpoint case
NeighborConstraintAllTwo(b, S, i, j) == neighsSum(S, i, j) = 2

\* the neighbour constraint with "at most two" for the cells of a path
NeighborConstraintAtMostTwo(b, S, i, j) ==
    IF Get(b, i, j) > 0
    THEN neighsSum(S, i, j) = 1
    ELSE neighsSum(S, i, j) \in {1, 2}

\* lines 94-100: the neighbour constraint of cell (i, j)
NeighborConstraint(b, S, i, j) ==
    IF Get(b, i, j) > 0
    THEN neighsSum(S, i, j) = 1
    ELSE neighsSum(S, i, j) = 2

\* both constraints of cell (i, j)
CellConstraint(b, S, i, j) ==
    /\ ValueConstraint(b, S, i, j)
    /\ NeighborConstraint(b, S, i, j)

Z3Constraints(b, S) ==
    \A c \in CellsOf(b) : CellConstraint(b, S, c[1], c[2])

\* The models are enumerated in row-major order, a flat sequence of values
\* per partial assignment.  A partial assignment is dropped as soon as a cell
\* whose four neighbours are all assigned breaks its constraint; the complete
\* ones are filtered by the constraint of every cell.
Unassigned == 0 - 2

Padded(b, flat) ==
    [x \in 1..NumRows(b) |->
        [y \in 1..NumCols(b) |->
            IF (x - 1) * NumCols(b) + y <= Len(flat)
            THEN flat[(x - 1) * NumCols(b) + y]
            ELSE Unassigned]]

\* the boards solver.model() can produce; empty iff check() is not 'sat'
Z3Models(b) ==
    LET n == NumRows(b) * NumCols(b)
        dom(k) == LET c == RowMajor(b)[k]
                  IN  IF Get(b, c[1], c[2]) > 0
                      THEN {Get(b, c[1], c[2])}
                      ELSE Z3Values(b)
        \* the cell above the last assigned one has all its neighbours assigned
        aboveOk(flat) == LET i == (Len(flat) - 1) \div NumCols(b)
                             j == (Len(flat) - 1) % NumCols(b)
                         IN  i >= 1 => CellConstraint(b, Padded(b, flat), i - 1, j)
        partial[k \in 0..n] ==
            IF k = 0
            THEN {<<>>}
            ELSE {flat \in {Append(q, v) : q \in partial[k - 1], v \in dom(k)} :
                     aboveOk(flat)}
    IN  {S \in {Padded(b, flat) : flat \in partial[n]} :
            \A c \in CellsOf(b) : CellConstraint(b, S, c[1], c[2])}

----------------------------------------------------------------------------
(* Input boards *)

Shapes ==
    {sh \in (2..MaxDim) \X (2..MaxDim) : sh[1] * sh[2] <= MaxCells}

ShapeCells(sh) == (0..(sh[1] - 1)) \X (0..(sh[2] - 1))

MakeBoard(sh, labels) ==
    [x \in 1..sh[1] |->
        [y \in 1..sh[2] |->
            IF <<x - 1, y - 1>> \in DOMAIN labels
            THEN labels[<<x - 1, y - 1>>] ELSE 0]]

\* every board of every shape with at most MaxLabelled labels in 1..MaxColor
EnumeratedBoards ==
    UNION {
        UNION { {MakeBoard(sh, labels) : labels \in [L -> 1..MaxColor]} :
                L \in {L \in SUBSET ShapeCells(sh) : Cardinality(L) <= MaxLabelled} }
        : sh \in Shapes }

\* spec.md section 8, concrete scenario 2
Scenario2x2 == << <<1, 1>>, <<0, 0>> >>

\* spec.md section 8, concrete scenario 1
Scenario4x4 ==
    << <<1, 0, 0, 2>>,
       <<0, 0, 0, 0>>,
       <<0, 1, 2, 0>>,
       <<0, 0, 0, 0>> >>

\* a 5x5 puzzle with five colours
Puzzle5x5 ==
    << <<0, 2, 0, 0, 3>>,
       <<0, 4, 0, 4, 0>>,
       <<0, 0, 0, 1, 3>>,
       <<0, 5, 5, 0, 1>>,
       <<0, 0, 2, 0, 0>> >>

\* a covering of Puzzle5x5
Puzzle5x5Covering ==
    << <<2, 2, 4, 4, 3>>,
       <<2, 4, 4, 4, 3>>,
       <<2, 5, 5, 1, 3>>,
       <<2, 5, 5, 1, 1>>,
       <<2, 2, 2, 1, 1>> >>

\* a 5x5 board with one color, in opposite corners
Corners5x5 ==
    << <<1, 0, 0, 0, 0>>,
       <<0, 0, 0, 0, 0>>,
       <<0, 0, 0, 0, 0>>,
       <<0, 0, 0, 0, 0>>,
       <<0, 0, 0, 0, 1>> >>

LargeBoards == {Scenario4x4, Puzzle5x5}

InputBoards == EnumeratedBoards \cup LargeBoards

----------------------------------------------------------------------------
(* The state machine *)

\* the requests: a board and the engine it is for (Corners5x5, whose paths
\* are too many to enumerate, goes to the SAT encoder only)
Init ==
    /\ board \in InputBoards \cup {Corners5x5}
    /\ strategy \in {"astar", "z3"}
    /\ board = Corners5x5 => strategy = "z3"
    /\ pc = "idle"
    /\ pairs = <<>>
    /\ stack = <<>>
    /\ nodeCount = 0
    /\ result = NoResult
    /\ thrown = "none"
    /\ round = 0
    /\ type = strategy
    /\ worker = "FlowSolver"
    /\ messages = 1
    /\ posted = <<>>
    /\ error = NoError
    /\ escaped = FALSE
    /\ z3Inits = 0
    /\ late = FALSE
    /\ cSolverInstance = "null"
    /\ reply = NoReply
    /\ loading = NotLoading
    /\ instances = 0
    /\ activeColor = 1
    /\ isPlacingSecond = FALSE
    /\ shownSolved = Null
    /\ clicks = 0
    /\ isSolving = FALSE
    /\ inFlight = <<>>
    /\ NoContainers

Top == stack[Len(stack)]

ReplaceTop(frame) == [stack EXCEPT ![Len(stack)] = frame]

\* solveBoard lines 357-371: the pairs recorded, up to the first number
\* without a pair (at which it throws)
AllPairs(b) == [number \in 1..MaxNum(b) |-> findPairs(b, number)]

\* the pair check passing over the numbers that do not occur at all
UnpairedPresent(b) ==
    {number \in 1..MaxNum(b) :
        AllPairs(b)[number][1] # Null /\ AllPairs(b)[number][2] = Null}

Unpaired(b) ==
    {number \in 1..MaxNum(b) :
        AllPairs(b)[number][1] = Null \/ AllPairs(b)[number][2] = Null}

\* solve -> solveBoard -> the first call of explorePathsForNumber, up to the
\* first iteration of its loop
Solve ==
    /\ pc = "idle"
    /\ strategy = "astar"
    /\ nodeCount' = 0
    /\ UNCHANGED <<board, strategy, round, host, loader, editor, containers, error, z3Inits, late>>
    /\ IF Len(board) = 0
       THEN \* line 395
            /\ pairs' = <<>>
            /\ Finish(Null, 0, "0", "none")
       ELSE IF Unpaired(board) # {}
       THEN \* line 369 throws, line 406 catches
            /\ pairs' = [number \in 1..SetMin(Unpaired(board))
                            |-> AllPairs(board)[number]]
            /\ Finish(Null, 0, "0", "NoPair")
       ELSE LET e == Enter(board, 0, 1, AllPairs(board))
            IN  /\ pairs' = AllPairs(board)
                /\ CASE e.kind = "throw" ->
                            \* line 198 throws, line 380 catches
                            \E t \in TimeTaken : Finish(Null, 0, t, "NoSolution")
                     [] e.kind = "null" ->
                            \E t \in TimeTaken : Finish(Null, 0, t, "none")
                     [] e.kind = "frame" ->
                            /\ pc' = "search"
                            /\ stack' = <<e.frame>>
                            /\ UNCHANGED <<result, thrown>>

\* the deadline checked in the outermost activation only
DeadlineExceededAtDepthOne ==
    /\ pc = "search"
    /\ Len(stack) = 1
    /\ Len(Top.queue) > 0
    /\ Finish(Null, 0, ">=14900", "Timeout")
    /\ UNCHANGED <<board, strategy, pairs, nodeCount, round,
                   host, loader, editor, containers, error, z3Inits, late>>

\* line 236: the deadline check of an iteration finds the time exceeded; the
\* Error unwinds every activation and solveBoard's catch returns its own
\* nodeCount, which is still 0
DeadlineExceeded ==
    /\ pc = "search"
    /\ Len(Top.queue) > 0
    /\ Finish(Null, 0, ">=14900", "Timeout")
    /\ UNCHANGED <<board, strategy, pairs, nodeCount, round,
                   host, loader, editor, containers, error, z3Inits, late>>

\* an iteration that dequeues a path not yet at the end cell
Expand ==
    /\ pc = "search"
    /\ Len(Top.queue) > 0
    /\ LET current == Head(Top.queue)
           cx == current[1]
           cy == current[2]
           path == current[3]
       IN  /\ ~(cx = Top.endCell[1] /\ cy = Top.endCell[2])
           /\ stack' = ReplaceTop([Top EXCEPT !.queue =
                  extendPath(Top.board, Top.endCell, cx, cy, path, 1,
                             Tail(Top.queue))])
    /\ UNCHANGED <<board, strategy, pc, pairs, nodeCount, result, thrown, round,
                   host, loader, editor, containers, error, z3Inits, late>>

\* an iteration that dequeues a path that has reached the end cell
Complete ==
    /\ pc = "search"
    /\ Len(Top.queue) > 0
    /\ LET current == Head(Top.queue)
           cx == current[1]
           cy == current[2]
           path == current[3]
           rest == [Top EXCEPT !.queue = Tail(Top.queue)]
       IN  /\ cx = Top.endCell[1] /\ cy = Top.endCell[2]
           /\ IF Top.minDist <= Len(path) /\ pathTuple(path) \notin Top.visitedPaths
              THEN LET newBoard == applyPath(Top.board, path, Top.number)
                       seen == [rest EXCEPT
                                   !.visitedPaths = @ \cup {pathTuple(path)},
                                   !.board = boardAfterApply(@, newBoard)]
                       nextNum == Top.number + 1
                       newSumPath == Top.sumPath + Len(path)
                   IN  /\ nodeCount' = nodeCount + 1
                       \* the first activation holds the caller's array
                       /\ board' = IF Len(stack) = 1
                                   THEN boardAfterApply(board, newBoard)
                                   ELSE board
                       /\ IF nextNum \in DOMAIN pairs
                          THEN IF IsFull(newSumPath, Top.board)
                               THEN \E t \in TimeTaken :
                                        Finish(newBoard, nodeCount', t, "none")
                               ELSE LET e == Enter(newBoard, newSumPath, nextNum, pairs)
                                    IN  /\ stack' = IF e.kind = "frame"
                                                    THEN Append(ReplaceTop(seen), e.frame)
                                                    ELSE ReplaceTop(seen)
                                        /\ UNCHANGED <<pc, result, thrown>>
                          ELSE IF IsFull(newSumPath, Top.board)
                               THEN \E t \in TimeTaken :
                                        Finish(newBoard, nodeCount', t, "none")
                               ELSE /\ stack' = ReplaceTop(seen)
                                    /\ UNCHANGED <<pc, result, thrown>>
              ELSE /\ stack' = ReplaceTop(rest)
                   /\ UNCHANGED <<board, pc, nodeCount, result, thrown>>
    /\ UNCHANGED <<strategy, pairs, round, host, loader, editor, containers, error, z3Inits, late>>

\* the loop started over when its queue is empty, instead of returning
ReturnRestart ==
    /\ pc = "search"
    /\ Len(Top.queue) = 0
    /\ stack' = ReplaceTop([Top EXCEPT !.queue =
           << <<Top.startCell[1], Top.startCell[2], <<Top.startCell>> >> >>])
    /\ UNCHANGED <<board, strategy, pc, pairs, nodeCount, result, thrown, round,
                   host, loader, editor, containers, error, z3Inits, late>>

\* line 348: the queue is empty, the activation returns [null, nodeCount]
Return ==
    /\ pc = "search"
    /\ Len(Top.queue) = 0
    /\ IF Len(stack) = 1
       THEN \E t \in TimeTaken : Finish(Null, nodeCount, t, "none")
       ELSE /\ stack' = SubSeq(stack, 1, Len(stack) - 1)
            /\ UNCHANGED <<pc, result, thrown>>
    /\ UNCHANGED <<board, strategy, pairs, nodeCount, round,
                   host, loader, editor, containers, error, z3Inits, late>>

\* solveZ3 and the envelope the worker posts for it.  Every call imports
\* the module and calls initZ3 (Z3Solver.ts:14-36); check() is awaited with
\* no deadline (Z3Solver.ts:105), and answers before the deadline of 15 s
\* (isLate = FALSE) or after it
SolveZ3Answer(isLate) ==
    /\ pc = "idle"
    /\ strategy = "z3"
    /\ LET models == Z3Models(board)
       IN  IF models # {}
           THEN \E S \in models : Finish(S, 0, "0", "none")
           ELSE Finish(Null, 0, "0", "none")
    /\ nodeCount' = 0
    /\ z3Inits' = z3Inits + 1
    /\ late' = isLate
    /\ UNCHANGED <<board, strategy, pairs, round, host, loader, editor, containers, error>>

SolveZ3 == SolveZ3Answer(FALSE)

\* the caller hands a returned board back to the same engine
Resubmit ==
    /\ pc = "done"
    /\ result.board # Null
    /\ round < MaxRounds
    /\ board' = result.board
    /\ round' = round + 1
    /\ pc' = "idle"
    /\ pairs' = <<>>
    /\ stack' = <<>>
    /\ nodeCount' = 0
    /\ result' = NoResult
    /\ thrown' = "none"
    /\ UNCHANGED <<strategy, host, loader, editor, containers, error, z3Inits, late>>

Next ==
    \/ Solve
    \/ DeadlineExceeded
    \/ Expand
    \/ Complete
    \/ Return
    \/ SolveZ3
    \/ Resubmit

Spec == Init /\ [][Next]_vars

\* solve alone, with a deadline that never fires: the requests for the path
\* enumeration, and the steps of its loops.  solve runs synchronously to
\* its end, so a step that can be taken is taken.
SearchInit == Init /\ strategy = "astar"

SearchNext ==
    \/ Solve
    \/ Expand
    \/ Complete
    \/ Return

SearchSpec == SearchInit /\ [][SearchNext]_vars /\ WF_vars(SearchNext)

----------------------------------------------------------------------------
(* solver.worker.ts: the wire format of the WASM back-end                  *)

\* COLOR_CHARS; source index i is element i + 1
COLOR_CHARS ==
    <<"", "R", "B", "Y", "G", "O", "C", "M", "m", "P", "A", "W", "g", "T",
      "b", "c", "p">>

\* the UTF-16 code units of the characters the wire format uses
charCode ==
    [ch \in {"R", "B", "Y", "G", "O", "C", "M", "m", "P", "A", "W", "g", "T",
             "b", "c", "p", "."} |->
        CASE ch = "R" -> 82  [] ch = "B" -> 66  [] ch = "Y" -> 89
          [] ch = "G" -> 71  [] ch = "O" -> 79  [] ch = "C" -> 67
          [] ch = "M" -> 77  [] ch = "m" -> 109 [] ch = "P" -> 80
          [] ch = "A" -> 65  [] ch = "W" -> 87  [] ch = "g" -> 103
          [] ch = "T" -> 84  [] ch = "b" -> 98  [] ch = "c" -> 99
          [] ch = "p" -> 112 [] ch = "." -> 46]

\* String.fromCharCode(code); a code outside the table is some other
\* character, written "?"
fromCharCode(code) ==
    IF \E ch \in DOMAIN charCode : charCode[ch] = code
    THEN CHOOSE ch \in DOMAIN charCode : charCode[ch] = code
    ELSE "?"

\* COLOR_CHARS.indexOf(char): the first source index holding char, or -1
indexOf(array, char) ==
    IF \E i \in 1..Len(array) : array[i] = char
    THEN SetMin({i \in 1..Len(array) : array[i] = char}) - 1
    ELSE 0 - 1

\* the character written for board[c][r]
cellChar(b, c, r) ==
    LET cellVal == Get(b, c, r)
    IN  IF cellVal > 0 /\ cellVal < Len(COLOR_CHARS)
        THEN COLOR_CHARS[cellVal + 1]
        ELSE "."

\* step 1: inputStr, a sequence of characters; line r holds board[0][r],
\* board[1][r], ... and ends with "\n"
RECURSIVE serializeFrom(_, _, _)
serializeFrom(b, r, c) ==
    LET size == Len(b)
    IN  IF r >= size
        THEN <<>>
        ELSE IF c >= size
             THEN <<"\n">> \o serializeFrom(b, r + 1, 0)
             ELSE <<cellChar(b, c, r)>> \o serializeFrom(b, r, c + 1)

serialize(b) == serializeFrom(b, 0, 0)

\* the color id of a byte code of the reply
colorOf(code) ==
    IF code = 0
    THEN 0
    ELSE LET id == indexOf(COLOR_CHARS, fromCharCode(code))
         IN  IF id > 0 THEN id ELSE 0

\* step 3 without the transposition: newBoard[x][y] = color of
\* solvedBoard[x][y]
decodeRowMajor(size, solvedBoard) ==
    [x \in 1..size |-> [y \in 1..size |-> colorOf(solvedBoard[x][y])]]

\* step 3: newBoard[x][y] = color of solvedBoard[y][x]
decode(size, solvedBoard) ==
    [x \in 1..size |-> [y \in 1..size |-> colorOf(solvedBoard[y][x])]]

\* The back-end (flow_solver_c.wasm) answers a text.  A grid it answers is
\* row-major: row y holds the byte codes of the cells of line y of inputStr.
\* Here the grid echoes inputStr, an empty cell answered as `empty`, or
\* has every empty cell filled with the first color.
gridOf(inputStr, size, empty, filler) ==
    [y \in 1..size |->
        [x \in 1..size |->
            LET ch == inputStr[(y - 1) * (size + 1) + x]
            IN  IF ch = "." THEN (IF filler = 0 THEN empty ELSE filler)
                ELSE charCode[ch]]]

Replies(inputStr, size) ==
    {[kind |-> "falsy"], [kind |-> "Error"], [kind |-> "unparsable"]}
    \cup {[kind |-> "json", grid |-> gridOf(inputStr, size, e, 0)] :
             e \in {0, charCode["."]}}
    \cup {[kind |-> "json", grid |-> gridOf(inputStr, size, 0, charCode["R"])]}

\* solveCSolver / solveHeuristicBFS after the module is loaded: the board
\* returned for a reply, Null for null
wasmResult(b, r) ==
    IF r.kind = "json" THEN decode(Len(b), r.grid) ELSE Null

----------------------------------------------------------------------------
(* solver.worker.ts: the message handler                                   *)

MaxMessages == 2     \* messages delivered to one worker
WireSlope == 1       \* wire boards: cell (x, y) holds (a*x + b*y + c) mod 17

\* the types a message may carry: those of the two user interfaces, the
\* name the other dispatcher gives the WASM back-end, and an unknown one
MessageTypes == {"astar", "z3", "heuristic_bfs", "c_solver", "dfs"}

\* FlowSolver.tsx:41, the types the user interface sends
UiTypes == {"astar", "z3", "heuristic_bfs"}

Workers == {"FlowSolver", "workers"}

\* the type the dispatcher of each file sends to the WASM back-end
BackendType(w) == IF w = "FlowSolver" THEN "c_solver" ELSE "heuristic_bfs"

\* the branch of the handler a type takes
Branch(w, t) ==
    IF t = "z3" THEN "z3"
    ELSE IF t = BackendType(w) THEN "wasm"
    ELSE "astar"

\* String(e) of an Error
ErrorString(name, message) ==
    IF message = "" THEN name ELSE name \o ": " \o message

\* what solveZ3 may throw: the dynamic import rejects, initZ3 rejects, or
\* the solver throws
Z3Failures ==
    {[at |-> "import", text |-> ErrorString("TypeError", "Failed to fetch dynamically imported module")],
     [at |-> "init", text |-> ErrorString("RuntimeError", "Aborted()")],
     [at |-> "check", text |-> ErrorString("Error", "")]}

\* what the WASM branch may throw: the module does not load (line 32), or
\* the call of solve_puzzle_wasm aborts
WasmFailures ==
    {[at |-> "load", text |-> ErrorString("Error", "Could not load C solver WASM")],
     [at |-> "call", text |-> ErrorString("RuntimeError", "Aborted()")]}

\* the envelope posted for a result, and the one the catch posts
Envelope(r) ==
    [board |-> r.board, timedOut |-> r.timedOut, timeTaken |-> r.timeTaken,
     nodeCount |-> r.nodeCount, error |-> NoError]

ErrorEnvelope(e) ==
    [board |-> Null, timedOut |-> FALSE, timeTaken |-> "0", nodeCount |-> 0,
     error |-> e]

WireBoards ==
    {[x \in 1..n |-> [y \in 1..n |->
         (a * (x - 1) + b * (y - 1) + c) % Len(COLOR_CHARS)]] :
        n \in 2..MaxDim, a \in 0..WireSlope, b \in 0..WireSlope,
        c \in 0..(Len(COLOR_CHARS) - 1)}

\* the boards of the messages: the enumerated 2x2 boards, and the wire
\* boards for the messages that reach the WASM back-end
WorkerBoards ==
    WireBoards
    \cup {b \in EnumeratedBoards : /\ NumRows(b) = NumRows(Scenario2x2)
                                   /\ NumCols(b) = NumCols(Scenario2x2)}

\* the messages: a wire board goes to the WASM back-end
Request(b, w, t) ==
    /\ t \in MessageTypes
    /\ b \notin EnumeratedBoards => t = BackendType(w)

WorkerInit ==
    /\ board \in WorkerBoards
    /\ type \in MessageTypes
    /\ worker \in Workers
    /\ Request(board, worker, type)
    /\ strategy = "none"
    /\ pc = "message"
    /\ pairs = <<>>
    /\ stack = <<>>
    /\ nodeCount = 0
    /\ result = NoResult
    /\ thrown = "none"
    /\ round = 0
    /\ messages = 1
    /\ posted = <<>>
    /\ error = NoError
    /\ escaped = FALSE
    /\ z3Inits = 0
    /\ late = FALSE
    /\ cSolverInstance = "null"
    /\ reply = NoReply
    /\ loading = NotLoading
    /\ instances = 0
    /\ activeColor = 1
    /\ isPlacingSecond = FALSE
    /\ shownSolved = Null
    /\ clicks = 0
    /\ isSolving = FALSE
    /\ inFlight = <<>>
    /\ NoContainers

\* self.onmessage up to the call of the engine
OnMessage ==
    /\ pc = "message"
    /\ strategy' = Branch(worker, type)
    /\ pc' = "idle"
    /\ UNCHANGED <<board, pairs, stack, nodeCount, result, thrown, round,
                   host, loader, editor, containers, error, z3Inits, late>>

SolveZ3Late == SolveZ3Answer(TRUE)

\* solveZ3 throws; the handler's catch receives the exception
SolveZ3Throws ==
    /\ pc = "idle"
    /\ strategy = "z3"
    /\ \E f \in Z3Failures :
          /\ error' = f.text
          /\ z3Inits' = IF f.at = "import" THEN z3Inits ELSE z3Inits + 1
    /\ pc' = "done"
    /\ UNCHANGED <<board, strategy, pairs, stack, nodeCount, result, thrown,
                   round, host, loader, editor, containers, late>>

\* solveCSolver / solveHeuristicBFS: the module is loaded unless the worker
\* holds it, the board is serialized, the back-end called, its reply decoded
SolveWasm ==
    /\ pc = "idle"
    /\ strategy = "wasm"
    /\ cSolverInstance' = "instance"
    /\ \E r \in Replies(serialize(board), Len(board)) :
          /\ reply' = r
          /\ Finish(wasmResult(board, r), 0, "0", "none")
    /\ nodeCount' = 0
    /\ UNCHANGED <<board, strategy, pairs, round, error, z3Inits, late,
                   type, worker, loader, editor, containers, messages, posted, escaped>>

\* the WASM branch throws; the handler's catch receives the exception
SolveWasmThrows ==
    /\ pc = "idle"
    /\ strategy = "wasm"
    /\ \E f \in WasmFailures :
          /\ f.at = "load" => cSolverInstance = "null"
          /\ error' = f.text
          /\ cSolverInstance' =
                IF f.at = "load" THEN "null" ELSE "instance"
    /\ pc' = "done"
    /\ UNCHANGED <<board, strategy, pairs, stack, nodeCount, result, thrown,
                   round, z3Inits, late,
                   type, worker, loader, editor, containers, messages, posted, escaped, reply>>

\* the handler without its try/catch: an exception leaves it, nothing is
\* posted
PostMessageNoCatch ==
    /\ pc = "done"
    /\ posted' = IF error # NoError THEN posted ELSE Append(posted, Envelope(result))
    /\ escaped' = (error # NoError)
    /\ pc' = "posted"
    /\ UNCHANGED <<board, strategy, pairs, stack, nodeCount, result, thrown,
                   round, error, z3Inits, late,
                   type, worker, loader, editor, containers, messages, cSolverInstance, reply>>

\* self.postMessage: of the result, or from the catch
PostMessage ==
    /\ pc = "done"
    /\ posted' = Append(posted, IF error # NoError
                                THEN ErrorEnvelope(error)
                                ELSE Envelope(result))
    /\ pc' = "posted"
    /\ UNCHANGED <<board, strategy, pairs, stack, nodeCount, result, thrown,
                   round, error, z3Inits, late,
                   type, worker, loader, editor, containers, messages, escaped, cSolverInstance, reply>>

\* the handler has returned; the next message, for the same board, is
\* delivered to the worker
NextMessage ==
    /\ pc = "posted"
    /\ messages < MaxMessages
    /\ type' \in MessageTypes
    /\ Request(board, worker, type')
    /\ messages' = messages + 1
    /\ pc' = "message"
    /\ strategy' = "none"
    /\ pairs' = <<>>
    /\ stack' = <<>>
    /\ nodeCount' = 0
    /\ result' = NoResult
    /\ thrown' = "none"
    /\ error' = NoError
    /\ late' = FALSE
    /\ reply' = NoReply
    /\ posted' = <<>>
    /\ UNCHANGED <<board, round, worker, loader, editor, containers, escaped, z3Inits, cSolverInstance>>

WorkerNext ==
    \/ OnMessage
    \/ Solve
    \/ DeadlineExceeded
    \/ Expand
    \/ Complete
    \/ Return
    \/ SolveZ3
    \/ SolveZ3Late
    \/ SolveZ3Throws
    \/ SolveWasm
    \/ SolveWasmThrows
    \/ PostMessage
    \/ NextMessage

WorkerSpec == WorkerInit /\ [][WorkerNext]_vars

----------------------------------------------------------------------------
(* solver.worker.ts: the loader of the WASM back-end, lines 12-34, when    *)
(* messages for it are delivered while earlier ones are still awaited.     *)
(* The handler is async: at each await the worker can take the next        *)
(* message.                                                                *)

MaxRequests == 3     \* messages for the WASM back-end delivered to one worker

Requests == 1..MaxRequests

\* what the loader steps leave alone
outsideLoader ==
    <<board, strategy, pc, pairs, stack, nodeCount, result, thrown, round,
      type, worker, messages, posted, escaped, reply, editor, containers, error,
      z3Inits,
      late>>

LoaderInit ==
    /\ board = Scenario2x2
    /\ worker \in Workers
    /\ type = BackendType(worker)
    /\ strategy = "wasm"
    /\ pc = "load"
    /\ pairs = <<>>
    /\ stack = <<>>
    /\ nodeCount = 0
    /\ result = NoResult
    /\ thrown = "none"
    /\ round = 0
    /\ messages = MaxRequests
    /\ posted = <<>>
    /\ error = NoError
    /\ escaped = FALSE
    /\ z3Inits = 0
    /\ late = FALSE
    /\ cSolverInstance = "null"
    /\ reply = NoReply
    /\ loading = [r \in Requests |-> "queued"]
    /\ instances = 0
    /\ activeColor = 1
    /\ isPlacingSecond = FALSE
    /\ shownSolved = Null
    /\ clicks = 0
    /\ isSolving = FALSE
    /\ inFlight = <<>>
    /\ NoContainers

\* the message of request r is taken (in the order of delivery) and its
\* handler runs to the first await: line 15 reads cSolverInstance, line 19
\* starts the import
Deliver(r) ==
    /\ loading[r] = "queued"
    /\ \A q \in 1..(r - 1) : loading[q] # "queued"
    /\ loading' = [loading EXCEPT ![r] =
           IF cSolverInstance = "null" THEN "import" ELSE "ready"]
    /\ UNCHANGED <<cSolverInstance, instances, outsideLoader>>

\* line 19 resumes: the module is imported, line 21 calls createFlowSolver
Imported(r) ==
    /\ loading[r] = "import"
    /\ loading' = [loading EXCEPT ![r] = "create"]
    /\ UNCHANGED <<cSolverInstance, instances, outsideLoader>>

\* line 21 resumes: the instance createFlowSolver made is assigned
Created(r) ==
    /\ loading[r] = "create"
    /\ loading' = [loading EXCEPT ![r] = "ready"]
    /\ cSolverInstance' = "instance"
    /\ instances' = instances + 1
    /\ UNCHANGED outsideLoader

\* lines 30-33: the import or createFlowSolver rejects, the catch throws
LoadFails(r) ==
    /\ loading[r] \in {"import", "create"}
    /\ loading' = [loading EXCEPT ![r] = "failed"]
    /\ UNCHANGED <<cSolverInstance, instances, outsideLoader>>

\* past the if: the request calls solve_puzzle_wasm of cSolverInstance
Call(r) ==
    /\ loading[r] = "ready"
    /\ loading' = [loading EXCEPT ![r] = "called"]
    /\ UNCHANGED <<cSolverInstance, instances, outsideLoader>>

LoaderNext ==
    \E r \in Requests :
        \/ Deliver(r)
        \/ Imported(r)
        \/ Created(r)
        \/ LoadFails(r)
        \/ Call(r)

LoaderSpec == LoaderInit /\ [][LoaderNext]_vars

----------------------------------------------------------------------------
(* FlowSolver.tsx: the board editor.  The component offers the sizes 5..15 *)
(* (sizeOptions) and starts with the smallest; the model offers smaller    *)
(* ones and starts with the smallest of them.                              *)

MaxEditorSize == 2   \* the sizes offered are 1..MaxEditorSize

EditorSizes == 1..MaxEditorSize

LastColor == 16      \* the last color of the palette

MaxClicks == 5       \* cell clicks followed from the mount of the component

MaxSolveClicks == 3  \* cell clicks followed when solves are interleaved

initializeBoard(boardSize) ==
    [x \in 1..boardSize |-> [y \in 1..boardSize |-> 0]]

countColor(b, color) ==
    Cardinality({c \in CellsOf(b) : Get(b, c[1], c[2]) = color})

\* while (countColor(b, nextColor) >= 2 && nextColor <= 16) nextColor++
RECURSIVE nextAvailable(_, _)
nextAvailable(b, nextColor) ==
    IF countColor(b, nextColor) >= 2 /\ nextColor <= LastColor
    THEN nextAvailable(b, nextColor + 1)
    ELSE nextColor

\* while (countColor(newBoard, lowestIncomplete) === 2) lowestIncomplete++
RECURSIVE lowestIncompleteFrom(_, _)
lowestIncompleteFrom(b, lowestIncomplete) ==
    IF countColor(b, lowestIncomplete) = 2
    THEN lowestIncompleteFrom(b, lowestIncomplete + 1)
    ELSE lowestIncomplete

EditorState(b, color, second) ==
    [board |-> b, activeColor |-> color, isPlacingSecond |-> second]

\* handleCellClick placing the active color whatever its count
handleCellClickUnchecked(solved, b, color, second, x, y) ==
    IF solved # Null
    THEN EditorState(b, color, second)
    ELSE IF Get(b, x, y) # 0
    THEN EditorState([b EXCEPT ![x + 1][y + 1] = 0], color, second)
    ELSE EditorState([b EXCEPT ![x + 1][y + 1] = color], color, ~second)

\* lines 124-180 of handleCellClick, past its first line: the board and the
\* color state it sets
placeOrRemove(b, color, second, x, y) ==
    LET cellValue == Get(b, x, y)
    IN  IF cellValue # 0
        THEN LET newBoard == [b EXCEPT ![x + 1][y + 1] = 0]
                 remaining == countColor(newBoard, cellValue)
                 lowest == lowestIncompleteFrom(newBoard, 1)
             IN  IF remaining = 1
                 THEN EditorState(newBoard, cellValue, TRUE)
                 ELSE IF remaining = 0
                 THEN EditorState(newBoard, lowest,
                                  countColor(newBoard, lowest) = 1)
                 ELSE EditorState(newBoard, color, second)
        ELSE LET currentCount == countColor(b, color)
                 newBoard == [b EXCEPT ![x + 1][y + 1] = color]
             IN  IF currentCount >= 2
                 THEN LET nextColor == nextAvailable(b, color)
                      IN  IF nextColor > LastColor
                          THEN EditorState(b, color, second)
                          ELSE EditorState(b, nextColor,
                                           countColor(b, nextColor) = 1)
                 ELSE IF currentCount = 1
                 THEN EditorState(newBoard, nextAvailable(newBoard, color + 1),
                                  FALSE)
                 ELSE EditorState(newBoard, color, TRUE)

\* handleCellClick without its first line
handleCellClickUnlocked(solved, b, color, second, x, y) ==
    placeOrRemove(b, color, second, x, y)

\* handleCellClick: with a solved board shown the click returns at once
\* (line 122)
handleCellClick(solved, b, color, second, x, y) ==
    IF solved # Null
    THEN EditorState(b, color, second)
    ELSE placeOrRemove(b, color, second, x, y)

\* what the editor steps leave alone
outsideEditor ==
    <<strategy, pc, pairs, stack, nodeCount, result, thrown, round, host,
      loader, containers, error, z3Inits, late>>

\* the editor in the state st after n cell clicks, nothing else going on
EditorAt(st, n) ==
    /\ board = st.board
    /\ activeColor = st.activeColor
    /\ isPlacingSecond = st.isPlacingSecond
    /\ shownSolved = Null
    /\ clicks = n
    /\ isSolving = FALSE
    /\ inFlight = <<>>
    /\ NoContainers
    /\ strategy = "none"
    /\ pc = "editor"
    /\ pairs = <<>>
    /\ stack = <<>>
    /\ nodeCount = 0
    /\ result = NoResult
    /\ thrown = "none"
    /\ round = 0
    /\ type = "heuristic_bfs"
    /\ worker = "FlowSolver"
    /\ messages = 0
    /\ posted = <<>>
    /\ error = NoError
    /\ escaped = FALSE
    /\ z3Inits = 0
    /\ late = FALSE
    /\ cSolverInstance = "null"
    /\ reply = NoReply
    /\ loading = NotLoading
    /\ instances = 0

\* the component as mounted: the empty board, color 1
EditorInit ==
    EditorAt(EditorState(initializeBoard(SetMin(EditorSizes)), 1, FALSE), 0)

\* a click on cell c
Click(c) ==
    LET after == handleCellClick(shownSolved, board, activeColor,
                                 isPlacingSecond, c[1], c[2])
    IN  /\ clicks' = clicks + 1
        /\ board' = after.board
        /\ activeColor' = after.activeColor
        /\ isPlacingSecond' = after.isPlacingSecond
        /\ UNCHANGED <<shownSolved, isSolving, inFlight, outsideEditor>>

\* a click on any cell of the grid
CellClick ==
    /\ clicks < MaxClicks
    /\ \E c \in CellsOf(board) : Click(c)

\* resetBoard(newSize), lines 91-104
resetBoard(newSize) ==
    /\ board' = initializeBoard(newSize)
    /\ shownSolved' = Null
    /\ activeColor' = 1
    /\ isPlacingSecond' = FALSE
    /\ UNCHANGED <<clicks, isSolving, inFlight, outsideEditor>>

\* the reset button
ResetClick == resetBoard(Len(board))

\* handleSizeChange
SizeChange == \E newSize \in EditorSizes : resetBoard(newSize)

\* the Solve button, disabled while isSolving (line 374), pressed with no
\* restraint
solveBoardUnguarded ==
    /\ isSolving' = TRUE
    /\ inFlight' = Append(inFlight, board)
    /\ UNCHANGED <<board, activeColor, isPlacingSecond, shownSolved, clicks,
                   outsideEditor>>

\* solveBoard, lines 185-199: the Solve button starts a worker and posts the
\* board to it; the button is disabled while isSolving (line 374)
solveBoard ==
    /\ ~isSolving
    /\ isSolving' = TRUE
    /\ inFlight' = Append(inFlight, board)
    /\ UNCHANGED <<board, activeColor, isPlacingSecond, shownSolved, clicks,
                   outsideEditor>>

\* the colors on board b
ColorsOn(b) == {Get(b, c[1], c[2]) : c \in CellsOf(b)} \ {0}

\* The boards a reply to the board `sent` may carry.  No engine returns a
\* board unless every color of `sent` has its two endpoints; the board it
\* returns has the empty cells filled with colors of `sent` and the other
\* cells as they are.
replyBoards(sent) ==
    LET empty == {c \in CellsOf(sent) : Get(sent, c[1], c[2]) = 0}
    IN  IF \E k \in ColorsOn(sent) : countColor(sent, k) # 2
        THEN {}
        ELSE {[x \in 1..NumRows(sent) |-> [y \in 1..NumCols(sent) |->
                  IF sent[x][y] # 0 THEN sent[x][y] ELSE f[<<x - 1, y - 1>>]]] :
                f \in [empty -> ColorsOn(sent)]}

\* inFlight without its i-th worker (worker.terminate())
terminate(i) ==
    [k \in 1..(Len(inFlight) - 1) |-> IF k < i THEN inFlight[k] ELSE inFlight[k + 1]]

\* worker.onmessage with result.board, lines 200-209: the worker is
\* terminated and the reply's board is shown
SolvedShown ==
    \E i \in DOMAIN inFlight :
        /\ isSolving' = FALSE
        /\ inFlight' = terminate(i)
        /\ \E solved \in replyBoards(inFlight[i]) : shownSolved' = solved
        /\ UNCHANGED <<board, activeColor, isPlacingSecond, clicks, outsideEditor>>

\* worker.onmessage without a board (timed out, error, no solution), lines
\* 210-221, and worker.onerror, lines 224-230: the worker is terminated
NotSolved ==
    \E i \in DOMAIN inFlight :
        /\ isSolving' = FALSE
        /\ inFlight' = terminate(i)
        /\ UNCHANGED <<board, activeColor, isPlacingSecond, shownSolved, clicks,
                       outsideEditor>>

\* the editor alone: the Solve button is not pressed
EditorNext ==
    \/ CellClick
    \/ ResetClick
    \/ SizeChange

EditorSpec == EditorInit /\ [][EditorNext]_vars

\* a click on any cell of the grid, among the first MaxSolveClicks
EarlyClick ==
    /\ clicks < MaxSolveClicks
    /\ \E c \in CellsOf(board) : Click(c)

----------------------------------------------------------------------------
(* The editor at the end of the palette.  On a 6x6 grid the first clicks   *)
(* of the run go to the cells in reading order, which places the colors    *)
(* 1..15; the run then goes on with clicks on the last cells of the grid.  *)

PaletteSize == 6     \* one of the sizes offered (sizeOptions)

MaxTail == 6         \* the clicks after the first go to the last MaxTail cells

MaxTailClicks == 7   \* how many such clicks are followed

PrefixClicks == 2 * (LastColor - 1)

\* the i-th cell of an n x n grid in reading order, from 0
cellAt(i, n) == <<i \div n, i % n>>

\* the editor in state st after clicks on the cells i..(n - 1) (the color of
\* st is read first, so that each click is computed before the next)
RECURSIVE clickedOn(_, _, _)
clickedOn(st, i, n) ==
    IF st.activeColor >= 1 /\ i >= n
    THEN st
    ELSE clickedOn(handleCellClick(Null, st.board, st.activeColor,
                                   st.isPlacingSecond,
                                   cellAt(i, PaletteSize)[1],
                                   cellAt(i, PaletteSize)[2]),
                   i + 1, n)

\* the editor after clicks on the first n cells of the empty grid
afterClicks(n) ==
    clickedOn(EditorState(initializeBoard(PaletteSize), 1, FALSE), 0, n)

TailCells ==
    {cellAt(i, PaletteSize) :
        i \in (PaletteSize * PaletteSize - MaxTail)..(PaletteSize * PaletteSize - 1)}

PaletteInit == EditorAt(afterClicks(PrefixClicks), PrefixClicks)

\* a click on one of the last cells of the grid
TailClick ==
    /\ clicks < PrefixClicks + MaxTailClicks
    /\ \E c \in TailCells : Click(c)

PaletteNext == TailClick

PaletteSpec == PaletteInit /\ [][PaletteNext]_vars

\* the editor with solve requests and their replies interleaved
SolveNext ==
    \/ EarlyClick
    \/ ResetClick
    \/ SizeChange
    \/ solveBoard
    \/ SolvedShown
    \/ NotSolved

SolveSpec == EditorInit /\ [][SolveNext]_vars

----------------------------------------------------------------------------
(* Solver.tsx: the classes MinHeap and Queue, each driven by an arbitrary  *)
(* caller.                                                                 *)

MaxPushes == 4       \* push calls followed

MaxKey == 2          \* the keys of the elements are 0..MaxKey

\* elements as aStar pushes them, compared by their first component; the
\* second tells elements of one key apart
HeapItems == {<<f, g>> : f \in 0..MaxKey, g \in 0..1}

QueueItems == 0..MaxKey

\* everything but the containers, at rest
ContainersOnly ==
    /\ board = Scenario2x2
    /\ strategy = "none"
    /\ pc = "containers"
    /\ pairs = <<>>
    /\ stack = <<>>
    /\ nodeCount = 0
    /\ result = NoResult
    /\ thrown = "none"
    /\ round = 0
    /\ type = "heuristic_bfs"
    /\ worker = "FlowSolver"
    /\ messages = 0
    /\ posted = <<>>
    /\ error = NoError
    /\ escaped = FALSE
    /\ z3Inits = 0
    /\ late = FALSE
    /\ cSolverInstance = "null"
    /\ reply = NoReply
    /\ loading = NotLoading
    /\ instances = 0
    /\ activeColor = 1
    /\ isPlacingSecond = FALSE
    /\ shownSolved = Null
    /\ clicks = 0
    /\ isSolving = FALSE
    /\ inFlight = <<>>

outsideContainers ==
    <<board, strategy, pc, pairs, stack, nodeCount, result, thrown, round, host,
      loader, editor, error, z3Inits, late>>

\* new MinHeap(compare), new Queue()
ContainersInit == ContainersOnly /\ NoContainers

\* MinHeap.push(item), lines 14-17
HeapPush ==
    /\ pushes < MaxPushes
    /\ \E item \in HeapItems : minHeap' = MinHeapPush(minHeap, item)
    /\ pushes' = pushes + 1
    /\ UNCHANGED <<popResult, pops, items, head, tail, shiftResult, pushedItems,
                   outsideContainers>>

\* MinHeap.pop(), lines 19-28
HeapPop ==
    /\ IF Len(minHeap) = 0
       THEN /\ popResult' = "undefined"
            /\ UNCHANGED <<minHeap, pops>>
       ELSE /\ popResult' = MinHeapPop(minHeap).top
            /\ minHeap' = MinHeapPop(minHeap).heap
            /\ pops' = pops + 1
    /\ UNCHANGED <<pushes, items, head, tail, shiftResult, pushedItems,
                   outsideContainers>>

HeapNext == HeapPush \/ HeapPop

HeapSpec == ContainersInit /\ [][HeapNext]_vars

\* Queue.push(item), lines 73-76, on the queue q = [items, head, tail]
QueuePush(q, item) ==
    [q EXCEPT !.items = [i \in (DOMAIN q.items) \cup {q.tail} |->
                            IF i = q.tail THEN item ELSE q.items[i]],
              !.tail = @ + 1]

\* Queue.shift returning the element pushed last
QueueShiftNewest(q) ==
    IF q.head = q.tail
    THEN [item |-> "undefined", queue |-> q]
    ELSE [item |-> q.items[q.tail - 1],
          queue |-> [q EXCEPT !.items = [i \in (DOMAIN q.items) \ {q.head} |->
                                           q.items[i]],
                              !.head = @ + 1]]

\* Queue.shift(), lines 78-86: the element returned and the queue left
QueueShift(q) ==
    IF q.head = q.tail
    THEN [item |-> "undefined", queue |-> q]
    ELSE [item |-> q.items[q.head],
          queue |-> [q EXCEPT !.items = [i \in (DOMAIN q.items) \ {q.head} |->
                                           q.items[i]],
                              !.head = @ + 1]]

\* get length(), lines 88-90
QueueLength(q) == q.tail - q.head

TheQueue == [items |-> items, head |-> head, tail |-> tail]

FifoPush ==
    /\ tail < MaxPushes
    /\ \E item \in QueueItems :
          /\ items' = QueuePush(TheQueue, item).items
          /\ head' = QueuePush(TheQueue, item).head
          /\ tail' = QueuePush(TheQueue, item).tail
          /\ pushedItems' = Append(pushedItems, item)
    /\ UNCHANGED <<shiftResult, minHeap, popResult, pushes, pops,
                   outsideContainers>>

FifoShift ==
    /\ shiftResult' = QueueShift(TheQueue).item
    /\ items' = QueueShift(TheQueue).queue.items
    /\ head' = QueueShift(TheQueue).queue.head
    /\ tail' = QueueShift(TheQueue).queue.tail
    /\ UNCHANGED <<pushedItems, minHeap, popResult, pushes, pops,
                   outsideContainers>>

QueueNext == FifoPush \/ FifoShift

QueueSpec == ContainersInit /\ [][QueueNext]_vars

----------------------------------------------------------------------------
(* Vocabulary of the properties *)

Adjacent(c, d) == Abs(c[1] - d[1]) + Abs(c[2] - d[2]) = 1

Occurrences(b, k) == {c \in CellsOf(b) : Get(b, c[1], c[2]) = k}

IsSquare(b) == Len(b) > 0 /\ NumRows(b) = NumCols(b)

SameShape(b, S) == NumRows(b) = NumRows(S) /\ NumCols(b) = NumCols(S)

\* each color 1..K occurs exactly twice, K >= 1
PairedBoard(b) ==
    /\ MaxNum(b) >= 1
    /\ \A k \in 1..MaxNum(b) : Cardinality(Occurrences(b, k)) = 2

\* some simple path starts at cur, runs through every cell of rest and
\* ends at last (last is in rest unless rest is empty)
RECURSIVE PathThrough(_, _, _)
PathThrough(cur, rest, last) ==
    IF rest = {}
    THEN cur = last
    ELSE \E n \in rest :
            /\ Adjacent(cur, n)
            /\ (n = last => rest = {last})
            /\ PathThrough(n, rest \ {n}, last)

\* the cells labelled k in S are the cells of one simple path that joins
\* the two cells labelled k in b
ClassIsPath(b, S, k) ==
    /\ Cardinality(Occurrences(b, k)) = 2
    /\ \E a \in Occurrences(b, k) : \E z \in Occurrences(b, k) :
          /\ a # z
          /\ {a, z} \subseteq Occurrences(S, k)
          /\ PathThrough(a, Occurrences(S, k) \ {a}, z)

\* S is a covering of b: labels kept, no cell left 0, every color class a
\* simple path between its endpoints
IsCovering(b, S) ==
    /\ SameShape(b, S)
    /\ \A c \in CellsOf(b) :
          /\ Get(S, c[1], c[2]) \in 1..MaxNum(b)
          /\ Get(b, c[1], c[2]) > 0 => Get(S, c[1], c[2]) = Get(b, c[1], c[2])
    /\ \A k \in 1..MaxNum(b) : ClassIsPath(b, S, k)

FreeCells(b) == Occurrences(b, 0)

Fill(b, f) ==
    [x \in 1..NumRows(b) |->
        [y \in 1..NumCols(b) |->
            IF b[x][y] = 0 THEN f[<<x - 1, y - 1>>] ELSE b[x][y]]]

\* every way of labelling the empty cells of a small board
Completions(b) == {Fill(b, f) : f \in [FreeCells(b) -> 1..MaxNum(b)]}

IsSmall(b) == NumRows(b) * NumCols(b) <= MaxCells

\* coverings of b: all of them for a small board, the recorded ones otherwise
Coverings(b) ==
    IF ~PairedBoard(b)
    THEN {}
    ELSE IF IsSmall(b)
         THEN {S \in Completions(b) : IsCovering(b, S)}
         ELSE {S \in {Puzzle5x5Covering} : IsCovering(b, S)}

Returned == pc = "done" /\ result.board # Null

\* number of 4-neighbours of c that hold the value of c
SameNeighbors(S, c) ==
    Cardinality({d \in CellsOf(S) :
        Adjacent(c, d) /\ Get(S, d[1], d[2]) = Get(S, c[1], c[2])})

----------------------------------------------------------------------------
(* C1 - completeness of the path enumeration: for a square board in which  *)
(* each color 1..K occurs exactly twice and which has a covering, solve    *)
(* returns a board unless the deadline expired.                            *)

C1_Completeness ==
    (/\ pc = "done"
     /\ strategy = "astar"
     /\ thrown # "Timeout"
     /\ IsSquare(board))
        => (result.board # Null \/ Coverings(board) = {})

----------------------------------------------------------------------------
(* C2 - a board without a covering gets no board, and the result is not    *)
(* flagged as timed out.                                                   *)

C2_NoSolutionNotTimedOut ==
    (/\ pc = "done"
     /\ strategy = "astar"
     /\ IsSquare(board)
     /\ IsSmall(board))
        => ((result.board = Null /\ ~result.timedOut) \/ Coverings(board) # {})

\* C2 as amended: no board is returned, and the result is flagged as timed
\* out only when the time taken has reached 14900 ms.
C2_NoSolution ==
    (/\ pc = "done"
     /\ strategy = "astar"
     /\ IsSquare(board)
     /\ IsSmall(board))
        => \/ /\ result.board = Null
              /\ result.timedOut => result.timeTaken = ">=14900"
           \/ Coverings(board) # {}

C2_Witness ==
    /\ pc = "done"
    /\ strategy = "astar"
    /\ board = << <<1, 2>>, <<2, 1>> >>
    /\ result.board = Null
    /\ ~result.timedOut
    /\ thrown = "none"

----------------------------------------------------------------------------
(* C3 - preservation: a returned board keeps every label of the input, for *)
(* both engines, and no path applied during the search overwrites a cell   *)
(* that holds a color.                                                     *)

Keeps(b, S) ==
    /\ SameShape(b, S)
    /\ \A c \in CellsOf(b) :
          Get(b, c[1], c[2]) > 0 => Get(S, c[1], c[2]) = Get(b, c[1], c[2])

C3_Preservation ==
    /\ Returned => Keeps(board, result.board)
    /\ \A i \in 1..Len(stack) :
          Keeps(IF i = 1 THEN board ELSE stack[i - 1].board, stack[i].board)

C3_Witness ==
    /\ Returned
    /\ strategy = "astar"
    /\ round = 0
    /\ MaxNum(board) = 2
    /\ PairedBoard(board)
    /\ Cardinality(FreeCells(board)) >= 3

----------------------------------------------------------------------------
(* C4 - totality: a board returned for a square input has no cell left 0.  *)

C4_Totality ==
    (Returned /\ IsSquare(board))
        => \A c \in CellsOf(result.board) : Get(result.board, c[1], c[2]) > 0

C4_Witness ==
    /\ Returned
    /\ strategy = "astar"
    /\ round = 0
    /\ board = << <<1, 1>>, <<0, 0>> >>
    /\ result.board = << <<1, 1>>, <<1, 1>> >>

----------------------------------------------------------------------------
(* C5 - connectivity: in a board returned by the path enumeration the      *)
(* cells of each color are exactly the cells of one simple path between    *)
(* the two input endpoints of the color.                                   *)

----------------------------------------------------------------------------
(* C6 - degree: in a board returned by the path enumeration the two input  *)
(* endpoints of a color have exactly one 4-neighbour of that color and     *)
(* every other cell of the color has exactly two.                          *)

----------------------------------------------------------------------------
(* C7 - the SAT encoding: solveZ3 returns a board iff some assignment of   *)
(* positive integers keeps every label of the input, gives every labelled  *)
(* cell exactly one 4-neighbour of equal value and every other cell        *)
(* exactly two; a returned board is such an assignment.                    *)

DegreeAssignment(b, S) ==
    /\ SameShape(b, S)
    /\ \A c \in CellsOf(b) :
          /\ Get(S, c[1], c[2]) >= 1
          /\ IF Get(b, c[1], c[2]) > 0
             THEN /\ Get(S, c[1], c[2]) = Get(b, c[1], c[2])
                  /\ SameNeighbors(S, c) = 1
             ELSE SameNeighbors(S, c) = 2

\* every assignment over the values of the model, labelled cells kept
Assignments(b) ==
    {[x \in 1..NumRows(b) |->
        [y \in 1..NumCols(b) |->
            IF b[x][y] > 0 THEN b[x][y] ELSE f[<<x - 1, y - 1>>]]] :
        f \in [FreeCells(b) -> Z3Values(b)]}

DegreeCell(b, S, i, j) ==
    /\ Get(S, i, j) >= 1
    /\ IF Get(b, i, j) > 0
       THEN Get(S, i, j) = Get(b, i, j) /\ SameNeighbors(S, <<i, j>>) = 1
       ELSE SameNeighbors(S, <<i, j>>) = 2

\* the degree assignments, by the row-major enumeration that drops a partial
\* assignment once a cell with all neighbours assigned breaks DegreeCell
PrunedDegreeAssignments(b) ==
    LET n == NumRows(b) * NumCols(b)
        dom(k) == LET c == RowMajor(b)[k]
                  IN  IF Get(b, c[1], c[2]) > 0
                      THEN {Get(b, c[1], c[2])}
                      ELSE Z3Values(b)
        \* the cell above the last assigned one has all its neighbours assigned
        aboveOk(flat) == LET i == (Len(flat) - 1) \div NumCols(b)
                             j == (Len(flat) - 1) % NumCols(b)
                         IN  i >= 1 => DegreeCell(b, Padded(b, flat), i - 1, j)
        partial[k \in 0..n] ==
            IF k = 0
            THEN {<<>>}
            ELSE {flat \in {Append(q, v) : q \in partial[k - 1], v \in dom(k)} :
                     aboveOk(flat)}
    IN  {S \in {Padded(b, flat) : flat \in partial[n]} :
            \A c \in CellsOf(b) : DegreeCell(b, S, c[1], c[2])}

\* no assignment is a degree assignment: by plain enumeration where the
\* empty cells are few, by the pruned enumeration otherwise
NoDegreeAssignment(b) ==
    IF Cardinality(FreeCells(b)) <= MaxPlain
    THEN \A S \in Assignments(b) : ~DegreeAssignment(b, S)
    ELSE PrunedDegreeAssignments(b) = {}

C7_SatEncoding ==
    (pc = "done" /\ strategy = "z3")
        => IF result.board # Null
           THEN DegreeAssignment(board, result.board)
           ELSE NoDegreeAssignment(board)

C7_Witness ==
    /\ Returned
    /\ strategy = "z3"
    /\ round = 0
    /\ NumRows(board) = 3
    /\ Cardinality(FreeCells(board)) >= 5

----------------------------------------------------------------------------
(* C8 - on the boards [[1,1],[0,0]] and [[1,0,0,2],[0,0,0,0],[0,1,2,0],    *)
(* [0,0,0,0]] both engines return a full covering, the 2x2 one being 1 in  *)
(* every cell.                                                             *)

C8_ScenariosSolved ==
    (/\ pc = "done"
     /\ round = 0
     /\ thrown # "Timeout"
     /\ board \in {Scenario2x2, Scenario4x4})
        => /\ result.board # Null
           /\ \A c \in CellsOf(result.board) : Get(result.board, c[1], c[2]) > 0
           /\ board = Scenario2x2 => result.board = << <<1, 1>>, <<1, 1>> >>

----------------------------------------------------------------------------
(* C9 - in a board returned by the SAT encoder every color class is one    *)
(* simple path between the two input endpoints of the color plus zero or   *)
(* more disjoint simple cycles, and every value of the board is a color of *)
(* the input.                                                              *)

Values(b) == {Get(b, c[1], c[2]) : c \in CellsOf(b)} \ {0}

\* every color of the input has exactly two endpoints
TwoEndpoints(b) == \A v \in Values(b) : Cardinality(Occurrences(b, v)) = 2

\* the cells connected to the cells of cur through cells of equal value
RECURSIVE Component(_, _)
Component(S, cur) ==
    LET next == cur \cup
                {d \in CellsOf(S) :
                    \E c \in cur : Adjacent(c, d)
                                   /\ Get(S, d[1], d[2]) = Get(S, c[1], c[2])}
    IN  IF next = cur THEN cur ELSE Component(S, next)

\* cells that lie on cycles of their class: all of degree two
Cycles(S, cells) == \A c \in cells : SameNeighbors(S, c) = 2

\* the class of v is one simple path between the endpoints of v, plus cycles
PathAndCycles(b, S, v) ==
    \E a \in Occurrences(b, v) : \E z \in Occurrences(b, v) :
        /\ a # z
        /\ z \in Component(S, {a})
        /\ PathThrough(a, Component(S, {a}) \ {a}, z)
        /\ Cycles(S, Occurrences(S, v) \ Component(S, {a}))

C9_ClassesOfInputColors ==
    (Returned /\ strategy = "z3" /\ Values(board) # {} /\ TwoEndpoints(board))
        => \A v \in Values(result.board) :
              v \in Values(board) /\ PathAndCycles(board, result.board, v)

\* C9 as amended: the class of a color of the input is one simple path
\* between its endpoints plus disjoint simple cycles; the class of a value
\* that is no color of the input consists of disjoint simple cycles.
C9_Classes ==
    (Returned /\ strategy = "z3" /\ TwoEndpoints(board))
        => \A v \in Values(result.board) :
              IF v \in Values(board)
              THEN PathAndCycles(board, result.board, v)
              ELSE Cycles(result.board, Occurrences(result.board, v))

\* a square board returned with a cycle of a value that is no color of the
\* input and a cycle of color 1 beside the path of color 1
C9_Witness ==
    /\ Returned
    /\ strategy = "z3"
    /\ round = 0
    /\ board = Corners5x5
    /\ Values(result.board) \ Values(board) # {}
    /\ Occurrences(result.board, 1) \ Component(result.board, {<<0, 0>>}) # {}

----------------------------------------------------------------------------
(* C10 - a fully labelled solved board is returned unchanged by both       *)
(* engines, and solving a returned board again returns it unchanged.       *)

NoZero(b) == Len(b) > 0 /\ FreeCells(b) = {}

\* fully labelled, every color 1..K a simple path
SolvedBoard(b) ==
    /\ NoZero(b)
    /\ \A k \in 1..MaxNum(b) :
          \E a \in Occurrences(b, k) : \E z \in Occurrences(b, k) :
              a # z /\ PathThrough(a, Occurrences(b, k) \ {a}, z)

C10_FixedPoint ==
    (/\ pc = "done"
     /\ thrown # "Timeout"
     /\ IsSquare(board)
     /\ (round >= 1 \/ SolvedBoard(board)))
        => result.board = board

\* every color 1..K covers exactly two cells, and they are adjacent
Dominoes(b) ==
    /\ NoZero(b)
    /\ PairedBoard(b)
    /\ \A k \in 1..MaxNum(b) :
          \A a \in Occurrences(b, k) : \A z \in Occurrences(b, k) :
              a # z => Adjacent(a, z)

\* C10 as amended: for a fully labelled board each engine returns that
\* board or none; it returns the board when the board is square and every
\* color covers exactly two adjacent cells, unless the deadline expires.
C10_FixedPointOfDominoes ==
    (pc = "done" /\ NoZero(board))
        => /\ result.board \in {Null, board}
           /\ (Dominoes(board) /\ IsSquare(board) /\ thrown # "Timeout")
                 => result.board = board

C10_Witness ==
    /\ pc = "done"
    /\ strategy = "astar"
    /\ board = << <<1, 1>>, <<2, 2>> >>
    /\ result.board = board
    /\ result.nodeCount = 2

----------------------------------------------------------------------------
(* C11 - for every message delivered to the worker, whatever its type and  *)
(* whatever the engine does (returns, throws, fails to load), the handler  *)
(* posts exactly one envelope and no exception leaves it; the envelope of  *)
(* a thrown failure has board = null, timedOut = false and a non-empty     *)
(* error string.                                                           *)
C11_OneEnvelope ==
    /\ ~escaped
    /\ Len(posted) <= 1
    /\ (pc = "posted") <=> (Len(posted) = 1)
    /\ (pc = "posted" /\ error # NoError)
          => /\ posted[1].board = Null
             /\ posted[1].timedOut = FALSE
             /\ posted[1].error \notin {NoError, ""}
    /\ (pc = "posted" /\ error = NoError) => posted[1] = Envelope(result)

\* the WASM module failed to load and the failure has been posted
C11_Witness ==
    /\ pc = "posted"
    /\ strategy = "wasm"
    /\ cSolverInstance = "null"
    /\ posted[1].error = "Error: Could not load C solver WASM"

----------------------------------------------------------------------------
(* C12 - the dispatcher runs the engine the caller selected: a message of  *)
(* the user interface with type astar, z3 or heuristic_bfs is executed by  *)
(* the path enumeration, the SAT encoder or the WASM back-end              *)
(* respectively, and by no other engine.                                   *)
EngineOf(t) ==
    CASE t = "astar" -> "astar"
      [] t = "z3" -> "z3"
      [] t = "heuristic_bfs" -> "wasm"

C12_SelectedEngine ==
    (type \in UiTypes /\ strategy # "none") => strategy = EngineOf(type)

----------------------------------------------------------------------------
(* C13 - the deadline of the path enumeration: the elapsed time is checked *)
(* at every dequeue at every recursion depth; once a check finds the       *)
(* deadline exceeded the whole search unwinds, no further path is applied  *)
(* or recursed upon, and solve returns board = null with timedOut = true.  *)
C13_Deadline ==
    /\ (pc = "search" /\ Len(Top.queue) > 0) => ENABLED DeadlineExceeded
    /\ thrown = "Timeout"
          => /\ pc = "done"
             /\ stack = <<>>
             /\ result.board = Null
             /\ result.timedOut = TRUE

\* the deadline fired after paths had been applied
C13_Witness ==
    /\ pc = "done"
    /\ thrown = "Timeout"
    /\ nodeCount > 1
    /\ result.timedOut = TRUE

----------------------------------------------------------------------------
(* C14 - no-solution is definitive for the path enumeration: when the      *)
(* search ends without a deadline check having fired, the result has       *)
(* board = null and timedOut = false; timedOut is true only if a deadline  *)
(* check raised the timeout.                                               *)
C14_Definitive ==
    (pc = "done" /\ strategy = "astar")
        => /\ result.timedOut => thrown = "Timeout"
           /\ (thrown # "Timeout" /\ result.board = Null) => ~result.timedOut

----------------------------------------------------------------------------
(* C15 - when the path enumeration times out, the nodeCount returned is    *)
(* the number of completed paths applied before the deadline fired (the    *)
(* increments of nodeCount performed so far), and no board is returned.    *)
C15_PartialNodeCount ==
    (pc = "done" /\ strategy = "astar" /\ thrown = "Timeout")
        => /\ result.board = Null
           /\ result.nodeCount = nodeCount

----------------------------------------------------------------------------
(* C16 - the SAT strategy is bounded by the deadline: when the back-end    *)
(* does not answer within the caller's deadline, the request completes     *)
(* with timedOut = true and board = null.                                  *)
C16_SatDeadline ==
    (strategy = "z3" /\ pc \in {"done", "posted"} /\ error = NoError /\ late)
        => /\ result.timedOut = TRUE
           /\ result.board = Null

----------------------------------------------------------------------------
(* C17 - parity validation: for every board in which some positive color   *)
(* occurs once or more than twice, solve (under either engine) returns no  *)
(* board and reports an invalid board, which the caller can tell from a    *)
(* plain no-solution result.                                               *)
ParityInvalid(b) ==
    \E k \in 1..MaxNum(b) : Cardinality(Occurrences(b, k)) \notin {0, 2}

\* what the caller can read off an envelope (FlowSolver.tsx:205-220)
Reported(r) ==
    IF r.board # Null THEN "Solved"
    ELSE IF r.timedOut THEN "Timeout"
    ELSE "NoSolution"

C17_ParityValidation ==
    (pc = "done" /\ ParityInvalid(board))
        => /\ result.board = Null
           /\ Reported(result) \notin {"Solved", "Timeout", "NoSolution"}

----------------------------------------------------------------------------
(* C18 - shape validation: for every non-square board (row count differs   *)
(* from column count) solve fails and never returns a board; in particular *)
(* it never returns a board that still contains a 0 cell.                  *)
C18_ShapeValidation ==
    (pc = "done" /\ strategy = "astar" /\ NumRows(board) # NumCols(board))
        => result.board = Null

----------------------------------------------------------------------------
(* C19 - across any sequence of SAT solve requests handled in one worker   *)
(* process, the SAT back-end module is initialized at most once and then   *)
(* reused: a second solveZ3 call does not initialize it again.             *)
C19_InitOnce == z3Inits <= 1

----------------------------------------------------------------------------
(* C20 - heuristic wire-format round trip: for every N x N board with      *)
(* values in 0..16, serializing it to the text grid (one line per row,     *)
(* color k as the k-th alphabet letter, 0 as ".") and decoding a reply     *)
(* that echoes the same grid as row-major byte codes yields exactly the    *)
(* original board: the two transpositions cancel and letter -> id inverts  *)
(* id -> letter.                                                           *)
WireValues(b) ==
    \A x \in 1..Len(b) : \A y \in 1..Len(b[x]) :
        b[x][y] \in 0..(Len(COLOR_CHARS) - 1)

\* the reply echoes the grid sent: each letter as its byte code, an empty
\* cell as 0 or as the byte code of "."
IsEcho(r, b) ==
    /\ r.kind = "json"
    /\ \E e \in {0, charCode["."]} :
          r.grid = gridOf(serialize(b), Len(b), e, 0)

C20_RoundTrip ==
    (/\ strategy = "wasm" /\ pc \in {"done", "posted"} /\ error = NoError
     /\ IsSquare(board) /\ WireValues(board)
     /\ IsEcho(reply, board))
        => result.board = board

\* an echoed board that is not its own transpose and holds both the last
\* color and an empty cell
C20_Witness ==
    /\ strategy = "wasm" /\ pc = "posted" /\ error = NoError
    /\ IsSquare(board) /\ WireValues(board)
    /\ IsEcho(reply, board)
    /\ result.board = board
    /\ \E x, y \in 1..Len(board) : board[x][y] # board[y][x]
    /\ \E x, y \in 1..Len(board) : board[x][y] = Len(COLOR_CHARS) - 1
    /\ \E x, y \in 1..Len(board) : board[x][y] = 0

----------------------------------------------------------------------------
(* C21 - aStar(board, s, t) returns exactly the minimum number of edges of *)
(* a 4-connected path from s to t whose intermediate cells are all 0 on    *)
(* the board (s and t exempt), and Infinity iff no such path exists: it    *)
(* agrees with a breadth-first reference on every square board and every   *)
(* pair of cells.                                                          *)
\* the breadth-first reference: the cells at distance d are the frontier
RECURSIVE BfsLoop(_, _, _, _, _)
BfsLoop(b, t, frontier, seen, d) ==
    IF t \in frontier
    THEN d
    ELSE IF frontier = {}
    THEN Infinity
    ELSE LET next == {c \in CellsOf(b) \ seen :
                         /\ \E f \in frontier : Adjacent(f, c)
                         /\ (Get(b, c[1], c[2]) = 0 \/ c = t)}
         IN  BfsLoop(b, t, next, seen \cup next, d + 1)

BfsDistance(b, s, t) == BfsLoop(b, t, {s}, {s}, 0)

C21_AStarIsBfs ==
    (pc = "idle" /\ IsSquare(board))
        => \A s \in CellsOf(board) : \A t \in CellsOf(board) :
               aStar(board, s, t) = BfsDistance(board, s, t)

----------------------------------------------------------------------------
(* C22 - the lower-bound gate never rejects: for every color, every board  *)
(* reached during the search and every completed path dequeued for that    *)
(* color, minDist (the aStar distance computed at entry) is at most the    *)
(* path's length as the code compares it, so every completed simple path   *)
(* is recursed upon.                                                       *)
C22_GateNeverRejects ==
    (/\ pc = "search"
     /\ Len(Top.queue) > 0
     /\ Head(Top.queue)[1] = Top.endCell[1]
     /\ Head(Top.queue)[2] = Top.endCell[2])
        => Top.minDist <= Len(Head(Top.queue)[3])

----------------------------------------------------------------------------
(* C23 - lookahead pruning: on entry for color k, if the endpoints of k or *)
(* of any color after k are not connected through cells that are 0 on the *)
(* current board, the branch fails without enumerating or applying any     *)
(* path; and the pruning never discards a board from which a covering of   *)
(* the (square) input is still reachable.                                  *)

\* the board on which the next color was entered after path p of frame f
BoardAfter(f, p) == applyPath(f.board, p, f.number)

\* the entry for the next color after path p of frame f failed at once
PrunedAfter(f, p) ==
    /\ f.number + 1 \in DOMAIN pairs
    /\ ~IsFull(f.sumPath + Len(p), f.board)
    /\ Enter(BoardAfter(f, p), f.sumPath + Len(p), f.number + 1, pairs).kind
           = "null"

\* some color from k on has its endpoints cut off on b
CutOff(b, k) ==
    \E j \in k..Cardinality(DOMAIN pairs) :
        BfsDistance(b, pairs[j][1], pairs[j][2]) = Infinity

\* S agrees with b on every cell b has filled
Extends(b, S) ==
    /\ SameShape(b, S)
    /\ \A c \in CellsOf(b) :
          Get(b, c[1], c[2]) # 0 => Get(S, c[1], c[2]) = Get(b, c[1], c[2])

----------------------------------------------------------------------------
(* C24 - path-extension invariant: every partial path held in the queue of *)
(* an activation for color k starts at the start cell of k, consists of    *)
(* pairwise distinct in-bounds cells with consecutive cells 4-adjacent,    *)
(* and every cell after the first is either 0 on the activation's board or *)
(* the end cell of k; a path that has reached the end cell is never        *)
(* extended further.                                                       *)
WellFormedPath(f, entry) ==
    LET path == entry[3]
    IN  /\ Len(path) >= 1
        /\ path[1] = f.startCell
        /\ path[Len(path)] = <<entry[1], entry[2]>>
        /\ \A i \in 1..Len(path) : path[i] \in CellsOf(f.board)
        /\ \A i \in 1..Len(path) : \A j \in 1..Len(path) :
              i # j => path[i] # path[j]
        /\ \A i \in 1..(Len(path) - 1) : Adjacent(path[i], path[i + 1])
        /\ \A i \in 2..Len(path) :
              Get(f.board, path[i][1], path[i][2]) = 0 \/ path[i] = f.endCell
        /\ \A i \in 1..(Len(path) - 1) : path[i] # f.endCell

C24_PathExtension ==
    \A n \in 1..Len(stack) : \A q \in 1..Len(stack[n].queue) :
        WellFormedPath(stack[n], stack[n].queue[q])

\* the queue of the second color holds a completed path and a partial one of
\* at least three cells, on a board that already carries the first color
C24_Witness ==
    /\ pc = "search"
    /\ Len(stack) = 2
    /\ Top.board # board
    /\ \E q \in 1..Len(Top.queue) :
          /\ Len(Top.queue[q][3]) >= 3
          /\ Top.queue[q][3][Len(Top.queue[q][3])] = Top.endCell
    /\ \E q \in 1..Len(Top.queue) :
          /\ Len(Top.queue[q][3]) >= 3
          /\ Top.queue[q][3][Len(Top.queue[q][3])] # Top.endCell

----------------------------------------------------------------------------
(* C25 - success condition: for every square input board, solve returns a  *)
(* board only after a path has been applied for every color 1..K in        *)
(* ascending order and the accumulated path length equals N * N; success   *)
(* is never returned while some color's endpoints are still unrouted.      *)

\* activation n + 1 was entered on the board a completed path of
\* activation n leaves, with that path's length added to the sum
EnteredFrom(outer, inner) ==
    \E p \in outer.visitedPaths :
        /\ inner.board = applyPath(outer.board, p, outer.number)
        /\ inner.sumPath = outer.sumPath + Len(p)
        /\ inner.number = outer.number + 1

\* the step that returns a board from the search
Succeeds == pc = "search" /\ pc' = "done" /\ result'.board # Null

C25_StepOk ==
    (Succeeds /\ IsSquare(board)) =>
        LET path == Head(Top.queue)[3]
        IN  /\ Len(stack) = Cardinality(DOMAIN pairs)
            /\ stack[1].board = board /\ stack[1].sumPath = 0
            /\ \A n \in 1..Len(stack) : stack[n].number = n
            /\ \A n \in 1..(Len(stack) - 1) :
                  EnteredFrom(stack[n], stack[n + 1])
            /\ path[Len(path)] = Top.endCell
            /\ Top.sumPath + Len(path) = NumRows(board) * NumRows(board)
            /\ result'.board = applyPath(Top.board, path, Top.number)

C25_Success == [][C25_StepOk]_vars

\* a board returned for a 3x3 input with two colors, two nodes counted
C25_Witness ==
    /\ Returned
    /\ strategy = "astar"
    /\ round = 0
    /\ NumRows(board) = 3 /\ NumCols(board) = 3
    /\ Cardinality(DOMAIN pairs) = 2
    /\ nodeCount >= 2
    /\ \A k \in 1..2 : ClassIsPath(board, result.board, k)

----------------------------------------------------------------------------
(* C26 - backtracking frame: a path is always applied to a fresh copy, so  *)
(* the caller's input board is never changed by solve, and after a branch  *)
(* for the next color fails the board used to enumerate further paths of   *)
(* the current color is the board the activation was entered with.         *)

\* one step of solve: the caller's board stays, and every activation that
\* is on the stack before and after the step keeps its board
C26_StepOk ==
    /\ pc \in {"idle", "search"} => board' = board
    /\ (pc = "search" /\ pc' = "search") =>
          \A n \in 1..Len(stack) :
              n <= Len(stack') => stack'[n].board = stack[n].board
    /\ pc' = "search" => stack'[1].board = board'

----------------------------------------------------------------------------
(* C27 - termination: for every board, even with no deadline ever firing,  *)
(* the path enumeration terminates, ending in a board or a failure: every  *)
(* queue eventually empties, and the depth of the recursion is bounded by  *)
(* the number of colors.                                                   *)
(*                                                                         *)
(* SearchSpec takes every step that can be taken; termination is that each *)
(* step goes down in a well-founded order and that a step can be taken     *)
(* until the call has ended.  The order: "idle" above "search" above       *)
(* "done"; two stacks are compared activation by activation from the       *)
(* outermost, a stack being below its extensions; two activations are      *)
(* compared by the numbers of queued paths of length 1, 2, ... in turn.    *)
(* Paths have at most as many cells as the board and a stack at most as    *)
(* many activations as there are colors, so no chain descends for ever.    *)

\* how many paths of length len activation f has queued
Queued(f, len) ==
    Cardinality({q \in 1..Len(f.queue) : Len(f.queue[q][3]) = len})

SameQueued(f2, f1) ==
    \A len \in 1..(NumRows(board) * NumCols(board)) :
        Queued(f2, len) = Queued(f1, len)

FewerQueued(f2, f1) ==
    \E len \in 1..(NumRows(board) * NumCols(board)) :
        /\ Queued(f2, len) < Queued(f1, len)
        /\ \A j \in 1..(len - 1) : Queued(f2, j) = Queued(f1, j)

StackBelow(s2, s1) ==
    \/ \E n \in 1..Len(s1) :
          /\ n <= Len(s2)
          /\ FewerQueued(s2[n], s1[n])
          /\ \A j \in 1..(n - 1) : SameQueued(s2[j], s1[j])
    \/ /\ Len(s2) < Len(s1)
       /\ \A j \in 1..Len(s2) : SameQueued(s2[j], s1[j])

pcRank(p) == IF p = "idle" THEN 2 ELSE IF p = "search" THEN 1 ELSE 0

C27_StepOk ==
    \* the step goes down
    /\ \/ pcRank(pc') < pcRank(pc)
       \/ pc = "search" /\ pc' = "search" /\ StackBelow(stack', stack)
    \* in the state reached a step can be taken unless the call has ended
    /\ pc' = "search" =>
          /\ Len(stack') >= 1
          /\ Len(stack') <= Cardinality(DOMAIN pairs')
          /\ \A n \in 1..Len(stack') : \A q \in 1..Len(stack'[n].queue) :
                Len(stack'[n].queue[q][3]) <= NumRows(board) * NumCols(board)
    /\ pc' \in {"search", "done"}

C27_Termination == [][C27_StepOk]_vars

\* the search has ended in a failure after counting several nodes, no
\* exception thrown
C27_Witness ==
    /\ pc = "done"
    /\ thrown = "none"
    /\ result.board = Null
    /\ nodeCount >= 3

----------------------------------------------------------------------------
(* C28 - missing colors are fatal: for every board whose colors do not     *)
(* form the full range 1..max (some color below the maximum is absent) the *)
(* path enumeration returns no board: solveBoard throws before any search, *)
(* even when every present color occurs exactly twice and a covering of    *)
(* the board exists.                                                       *)
HasGap(b) == \E k \in 1..MaxNum(b) : Occurrences(b, k) = {}

C28_MissingColors ==
    (pc = "done" /\ strategy = "astar" /\ HasGap(board))
        => /\ result.board = Null
           /\ thrown = "NoPair"
           /\ nodeCount = 0

\* color 1 is absent, color 2 occurs twice and its path can cover the board
C28_Witness ==
    /\ pc = "done"
    /\ strategy = "astar"
    /\ board = << <<2, 0>>, <<2, 0>> >>
    /\ HasGap(board)
    /\ TwoEndpoints(board)
    /\ ClassIsPath(board, << <<2, 2>>, <<2, 2>> >>, 2)
    /\ result.board = Null

----------------------------------------------------------------------------
(* C29 - for any interleaving of requests for the WASM back-end delivered  *)
(* to one worker, the instance is created at most once and then reused,    *)
(* including when a second request arrives while the first is still        *)
(* awaiting the load; after a failed load the instance stays unset and the *)
(* next request attempts the load again.                                   *)
C29_InstanceOnce ==
    /\ instances <= 1
    /\ instances = 0 => cSolverInstance = "null"
    /\ \A r \in DOMAIN loading :
          loading[r] \in {"ready", "called"} => cSolverInstance = "instance"

----------------------------------------------------------------------------
(* C30 - editor invariant: starting from the empty board, after any        *)
(* sequence of cell clicks (with resets and size changes), every color     *)
(* occurs on the board at most twice.                                      *)
C30_AtMostTwice ==
    \A c \in CellsOf(board) :
        Get(board, c[1], c[2]) # 0 => countColor(board, Get(board, c[1], c[2])) <= 2

\* a color placed twice on a board from which an endpoint was removed
\* (more clicks than filled cells)
C30_Witness ==
    /\ pc = "editor"
    /\ countColor(board, 1) = 2
    /\ countColor(board, 2) = 1
    /\ clicks > Cardinality(CellsOf(board)) - countColor(board, 0)

----------------------------------------------------------------------------
(* C31 - editor click semantics: with no solution displayed, a click on an *)
(* empty cell places the active color in that cell, a click on a filled    *)
(* cell sets that cell to 0, and no other cell changes; no click on an     *)
(* empty cell is swallowed.                                                *)

\* the step on cell c that the click semantics asks for
ClickedAs(c) ==
    /\ board'[c[1] + 1][c[2] + 1] =
           IF Get(board, c[1], c[2]) = 0 THEN activeColor ELSE 0
    /\ \A d \in CellsOf(board) \ {c} : Get(board', d[1], d[2]) = Get(board, d[1], d[2])

C31_StepOk ==
    (clicks' = clicks + 1 /\ shownSolved = Null)
        => /\ Len(board') = Len(board)
           /\ \E c \in CellsOf(board) : ClickedAs(c)

C31_ClickSemantics == [][C31_StepOk]_vars

----------------------------------------------------------------------------
(* C32 - editor invariant: in every state reachable by clicks from the     *)
(* empty board, isPlacingSecond is true exactly when the active color has  *)
(* exactly one endpoint on the board.                                      *)
C32_PlacingSecond ==
    pc = "editor" => (isPlacingSecond <=> countColor(board, activeColor) = 1)

----------------------------------------------------------------------------
(* C33 - editor invariant: after any sequence of clicks on a board with    *)
(* room for them, every cell value stays within 0..16 and the active color *)
(* never exceeds the 16 colors of the palette, so every board sent to a    *)
(* solver has its colors in 1..16.                                         *)
C33_WithinPalette ==
    pc = "editor"
        => /\ activeColor \in 1..LastColor
           /\ \A c \in CellsOf(board) : Get(board, c[1], c[2]) \in 0..LastColor

----------------------------------------------------------------------------
(* C34 - solved lock: while a solved board is displayed a cell click       *)
(* changes nothing (board, activeColor and isPlacingSecond stay as they    *)
(* are), and only Reset or a size change clears solvedBoard.               *)

\* the step is one of resetBoard
IsReset ==
    /\ board' = initializeBoard(Len(board'))
    /\ activeColor' = 1
    /\ ~isPlacingSecond'

C34_StepOk ==
    /\ (shownSolved # Null /\ clicks' = clicks + 1)
          => UNCHANGED <<board, activeColor, isPlacingSecond, shownSolved>>
    /\ (shownSolved # Null /\ shownSolved' = Null) => IsReset

C34_SolvedLock == [][C34_StepOk]_vars

\* a third click came while the solution of a board with two cells was shown
C34_Witness ==
    /\ shownSolved # Null
    /\ clicks = 3
    /\ Len(board) = 2
    /\ countColor(board, 1) = 2
    /\ countColor(board, 0) = 2

----------------------------------------------------------------------------
(* C35 - result freshness: whenever a solved board is displayed, it has    *)
(* the size of the current board and agrees with it on every positive      *)
(* cell, under every interleaving of cell clicks, Reset and size changes   *)
(* with a solve request in flight and the reply to it.                     *)
C35_Fresh ==
    shownSolved # Null
        => /\ Len(shownSolved) = Len(board)
           /\ \A c \in CellsOf(board) :
                 Get(board, c[1], c[2]) # 0
                     => Get(shownSolved, c[1], c[2]) = Get(board, c[1], c[2])

----------------------------------------------------------------------------
(* C36 - solve lifecycle: a solve can be started only while isSolving is   *)
(* false, so at most one worker is live at any time; each worker gets one  *)
(* request and is terminated, with isSolving reset to false, on its first  *)
(* response or error.                                                      *)
C36_OneWorker ==
    /\ Len(inFlight) <= 1
    /\ isSolving <=> Len(inFlight) = 1

\* a second solve is in flight while the solution of the first is shown
C36_Witness ==
    /\ isSolving
    /\ Len(inFlight) = 1
    /\ shownSolved # Null

----------------------------------------------------------------------------
(* C37 - MinHeap: after any sequence of push and pop operations, pop       *)
(* returns an element that is minimal under the comparator among the       *)
(* elements held (undefined when empty) and removes exactly that element,  *)
(* and length equals pushes minus successful pops.                         *)

\* how often e occurs in the sequence h
CountIn(h, e) == Cardinality({i \in DOMAIN h : h[i] = e})

C37_StepOk ==
    /\ pops' = pops + 1
          => /\ CountIn(minHeap, popResult') > 0
             /\ \A i \in DOMAIN minHeap : compare(popResult', minHeap[i]) <= 0
             /\ \A e \in HeapItems :
                   CountIn(minHeap', e) =
                       CountIn(minHeap, e) - (IF e = popResult' THEN 1 ELSE 0)
    /\ (pushes' = pushes /\ Len(minHeap) = 0)
          => popResult' = "undefined" /\ minHeap' = <<>> /\ pops' = pops
    /\ (pushes' = pushes /\ Len(minHeap) > 0) => pops' = pops + 1
    /\ Len(minHeap') = pushes' - pops'

C37_MinHeap == [][C37_StepOk]_vars

\* two elements popped, the second of a larger key, two more still held
C37_Witness ==
    /\ pops = 2
    /\ popResult # "undefined"
    /\ popResult[1] > 0
    /\ Len(minHeap) = 2

----------------------------------------------------------------------------
(* C38 - Queue: after any sequence of push and shift operations, shift     *)
(* returns the elements in exactly the order they were pushed, shift on an *)
(* empty queue returns undefined and leaves head, tail and length          *)
(* unchanged, and length = tail - head is never negative.                  *)
C38_StepOk ==
    /\ head' = head + 1
          => /\ tail' = tail
             /\ shiftResult' = pushedItems[head + 1]
    /\ (tail' = tail /\ head = tail)
          => /\ shiftResult' = "undefined"
             /\ head' = head
             /\ items' = items
    /\ (tail' = tail /\ head # tail) => head' = head + 1
    /\ head' \in {head, head + 1}
    /\ tail' \in {tail, tail + 1}
    /\ QueueLength([items |-> items', head |-> head', tail |-> tail']) >= 0
    /\ QueueLength([items |-> items', head |-> head', tail |-> tail'])
          = Cardinality(DOMAIN items')

C38_Queue == [][C38_StepOk]_vars

\* three elements pushed, not all equal, and all of them shifted out again
C38_Witness ==
    /\ tail = 3
    /\ head = 3
    /\ shiftResult = pushedItems[3]
    /\ pushedItems[1] # pushedItems[3]

====
